---- MODULE Spec2Model ----
(***************************************************************************)
(* Audio steganography studio (Audio_Steganography.py, class               *)
(* AudioStegoApp): Smart Header protocol, capacity calculator, the LSB,    *)
(* Echo, Phase and DSSS codecs, and the encode / decode orchestrators.     *)
(*                                                                         *)
(* Conventions.                                                            *)
(*  - A numpy array is a sequence; Python index i is element i+1.          *)
(*  - An int16 sample is an integer in -32768..32767; s & 1 is s % 2 and   *)
(*    (s & ~1) | b is s - (s % 2) + b (two's complement, % is floor-mod).  *)
(*  - A sample buffer is a record [pcm, fp]: pcm holds the int16 values;   *)
(*    fp lists the regions whose values come out of floating-point DSP     *)
(*    that is not evaluated here (inverse FFT of Phase Coding, the seeded  *)
(*    PCG64 sequence of DSSS).  A region [op, pos, size, bits] stands for  *)
(*    the samples pos..pos+size-1 computed by encoder op from the pcm      *)
(*    values kept at those positions and from bits; equal records denote   *)
(*    equal buffers.                                                       *)
(*  - An unsigned 32-bit value is a record [hi, lo] of two 16-bit limbs    *)
(*    (value hi * 65536 + lo), so that the whole range 0..2^32-1 is        *)
(*    covered with 32-bit integer arithmetic.                              *)
(***************************************************************************)
EXTENDS Integers, Sequences, FiniteSets, TLC

\* An optional value (Python None or a value) is a sequence of length 0 or 1.
None == <<>>
Some(x) == <<x>>
Val(o) == o[1]

\* ------------------------------------------------------------------ bounds

\* Longest sample array of the codec-level probes.
MaxLen == 3

\* Samples the longer carrier of the application runs has beyond the
\* shortest length process_steganography accepts (HEADER_OFFSET + 120).
ExtraSamples == 0

\* User events (picks, selections, clicks) of one application run.
MaxEvents == 5

\* ---------------------------------------------------------- program constants

HEADER_OFFSET == 1000
header_len == 15
header_bytes == 4
phase_segment_size == 256
phase_start_bin == 20
bits_per_segment == 8
dsss_frame_size == 8192
overhead_bytes == 32
dsss_alpha == 500
dummy_len == 512

bits_needed == header_len * 8

INT16_MIN == -32768
INT16_MAX == 32767

\* ------------------------------------------------------------------ helpers

Min(a, b) == IF a <= b THEN a ELSE b
Max(a, b) == IF a >= b THEN a ELSE b

Pow2(k) == CASE k = 0 -> 1 [] k = 1 -> 2 [] k = 2 -> 4 [] k = 3 -> 8
             [] k = 4 -> 16 [] k = 5 -> 32 [] k = 6 -> 64 [] k = 7 -> 128

RECURSIVE SumSeq(_)
SumSeq(s) == IF s = <<>> THEN 0 ELSE Head(s) + SumSeq(Tail(s))

\* Python slice s[a:b] for 0 <= a, clipped to the sequence.
Slice(s, a, b) ==
    LET hi == Min(b, Len(s))
    IN  IF hi <= a THEN <<>> ELSE [i \in 1..(hi - a) |-> s[a + i]]

\* Python slice s[:n], including a negative n (all but the last -n).
Prefix(s, n) == IF n >= 0 THEN Slice(s, 0, n) ELSE Slice(s, 0, Len(s) + n)

U32(n) == [hi |-> n \div 65536, lo |-> n % 65536]

Buf(pcm) == [pcm |-> pcm, fp |-> <<>>]

\* F applied to the value of e, with e evaluated once (a local variable of
\* the code that is assigned once and read many times).
Bind(e, F(_)) == CHOOSE r \in { F(x) : x \in {e} } : TRUE

\* ------------------------------------------------------------------- state

VARIABLES
    carrier_path,       \* None or Some(path of the carrier last picked)
    audio_data,         \* None or Some(int16 samples of the carrier)
    payload_path,       \* None or Some(bytes of the file picked as payload)
    algo_var,           \* the method combobox
    echo_chunk_size,    \* tk.IntVar, samples per bit
    echo_delay_0,       \* tk.IntVar
    echo_delay_1,       \* tk.IntVar
    echo_alpha,         \* tk.DoubleVar, in tenths (5 is 0.5)
    btn_bake,           \* state of "Generate & Save Output File"
    btn_play_stego,     \* state of "Preview Stego"
    last_encode,        \* the last run of save_stego_file: inputs and outcome
    decode_audio_data,  \* None or Some(buffer loaded on the decode tab)
    last_extract,       \* the last run of extract_file: buffer and outcome
    prev_extract,       \* the run of extract_file before it
    events,             \* number of user events handled so far
    probe               \* codec-level runs: one call and its result

vars == << carrier_path, audio_data, payload_path, algo_var, echo_chunk_size,
           echo_delay_0, echo_delay_1, echo_alpha, btn_bake, btn_play_stego,
           last_encode, decode_audio_data, last_extract, prev_extract, events,
           probe >>

LSB == "LSB (Least Significant Bit)"
ECHO == "Echo Hiding"
PHASE == "Phase Coding"
DSSS == "Spread Spectrum"
AlgoValues == {LSB, ECHO, PHASE, DSSS}

\* ------------------------------------------------------- numpy bit packing

\* Variant: bitorder='little', each byte's least significant bit first.
unpackbits_little(bytes) ==
    [i \in 1..(8 * Len(bytes)) |->
        (bytes[((i - 1) \div 8) + 1] \div Pow2((i - 1) % 8)) % 2]

\* np.unpackbits: each byte becomes its 8 bits, most significant first.
unpackbits(bytes) ==
    [i \in 1..(8 * Len(bytes)) |->
        (bytes[((i - 1) \div 8) + 1] \div Pow2(7 - ((i - 1) % 8))) % 2]

\* np.packbits: 8 bits per byte, most significant first, the last byte
\* padded with zero bits.
packbits(bits) ==
    LET n == (Len(bits) + 7) \div 8
        bit(i) == IF i <= Len(bits) THEN bits[i] ELSE 0
    IN  [j \in 1..n |->
            bit(8*j - 7) * 128 + bit(8*j - 6) * 64 + bit(8*j - 5) * 32
          + bit(8*j - 4) * 16 + bit(8*j - 3) * 8 + bit(8*j - 2) * 4
          + bit(8*j - 1) * 2 + bit(8*j)]

\* ------------------------------------------------------------ Smart Header

\* Variant: payload_len packed as a 16-bit field, the upper two bytes zero.
create_smart_header_short(algo_id, param1, param2, param3, payload_len) ==
    LET data == << 115, 116, algo_id,
                   param1 % 256, param1 \div 256,
                   param2 % 256, param2 \div 256,
                   param3 % 256, param3 \div 256,
                   payload_len.lo % 256, payload_len.lo \div 256, 0, 0 >>
        checksum == SumSeq(data) % 65536
    IN  data \o << checksum % 256, checksum \div 256 >>

\* Variant: the three parameters packed big-endian ('>H').
create_smart_header_big_endian(algo_id, param1, param2, param3, payload_len) ==
    LET data == << 115, 116, algo_id,
                   param1 \div 256, param1 % 256,
                   param2 \div 256, param2 % 256,
                   param3 \div 256, param3 % 256,
                   payload_len.lo % 256, payload_len.lo \div 256,
                   payload_len.hi % 256, payload_len.hi \div 256 >>
        checksum == SumSeq(data) % 65536
    IN  data \o << checksum % 256, checksum \div 256 >>

\* struct.pack('<2sBHHHI', b'st', ...) + struct.pack('<H', checksum).
create_smart_header(algo_id, param1, param2, param3, payload_len) ==
    LET data == << 115, 116, algo_id,
                   param1 % 256, param1 \div 256,
                   param2 % 256, param2 \div 256,
                   param3 % 256, param3 \div 256,
                   payload_len.lo % 256, payload_len.lo \div 256,
                   payload_len.hi % 256, payload_len.hi \div 256 >>
        checksum == SumSeq(data) % 65536
    IN  data \o << checksum % 256, checksum \div 256 >>

\* Variant: the magic bytes are not tested.
unpack_header_any_magic(hb) ==
    LET crc == hb[14] + 256 * hb[15]
        calc_crc == SumSeq(Slice(hb, 0, 13)) % 65536
    IN  IF calc_crc # crc THEN None
        ELSE Some([algo_id |-> hb[3],
                   p1 |-> hb[4] + 256 * hb[5],
                   p2 |-> hb[6] + 256 * hb[7],
                   p3 |-> hb[8] + 256 * hb[9],
                   payload_len |-> [hi |-> hb[12] + 256 * hb[13],
                                    lo |-> hb[10] + 256 * hb[11]]])

\* Variant: the checksum is not tested.
unpack_header_no_crc(hb) ==
    IF ~(hb[1] = 115 /\ hb[2] = 116) THEN None
    ELSE Some([algo_id |-> hb[3],
               p1 |-> hb[4] + 256 * hb[5],
               p2 |-> hb[6] + 256 * hb[7],
               p3 |-> hb[8] + 256 * hb[9],
               payload_len |-> [hi |-> hb[12] + 256 * hb[13],
                                lo |-> hb[10] + 256 * hb[11]]])

\* The part of read_smart_header that works on the 15 packed bytes hb:
\* struct.unpack of data and crc, the magic test, the checksum test.
unpack_header(hb) ==
    LET crc == hb[14] + 256 * hb[15]
        calc_crc == SumSeq(Slice(hb, 0, 13)) % 65536
    IN  IF ~(hb[1] = 115 /\ hb[2] = 116) THEN None
        ELSE IF calc_crc # crc THEN None
        ELSE Some([algo_id |-> hb[3],
                   p1 |-> hb[4] + 256 * hb[5],
                   p2 |-> hb[6] + 256 * hb[7],
                   p3 |-> hb[8] + 256 * hb[9],
                   payload_len |-> [hi |-> hb[12] + 256 * hb[13],
                                    lo |-> hb[10] + 256 * hb[11]]])

\* audio is the int16 array (pcm).  None, or Some(the parsed header).
read_smart_header(audio) ==
    IF Len(audio) < bits_needed THEN None
    ELSE Bind(packbits([i \in 1..bits_needed |-> audio[i] % 2]), unpack_header)

\* audio[:len(bits)] = (audio[:len(bits)] & ~1) | bits, the in-line header
\* write of process_steganography and generate_preview.
write_header_bits(pcm, bits) ==
    [i \in 1..Len(pcm) |->
        IF i <= Len(bits) THEN pcm[i] - (pcm[i] % 2) + bits[i] ELSE pcm[i]]

\* --------------------------------------------------------------- LSB codec

\* Bits kept after "if num_bits > available: bits = bits[:available]".
lsb_kept_bits(bits, audio_len, start_index) ==
    LET available == audio_len - start_index
    IN  IF Len(bits) > available THEN Prefix(bits, available) ELSE bits

\* The slice assignment raises ValueError when the slice is empty (the start
\* lies past the end of the array) and two or more bits are kept: shapes (0,)
\* and (m,) broadcast only for m <= 1.  The array is then left as it was.
lsb_raises(bits, audio_len, start_index) ==
    /\ start_index > audio_len
    /\ Len(lsb_kept_bits(bits, audio_len, start_index)) >= 2

\* Variant: the written samples become the bit itself, bits 1-15 are lost.
lsb_write_whole_sample(audio, kept, start_index) ==
    [i \in 1..Len(audio) |->
        IF i > start_index /\ i <= start_index + Len(kept)
        THEN kept[i - start_index]
        ELSE audio[i]]

\* audio[start:end] = (audio[start:end] & ~1) | bits for the kept bits.
lsb_write(audio, kept, start_index) ==
    [i \in 1..Len(audio) |->
        IF i > start_index /\ i <= start_index + Len(kept)
        THEN audio[i] - (audio[i] % 2) + kept[i - start_index]
        ELSE audio[i]]

\* Variant: the bits are written from sample 0 on.
algo_lsb_encode_at_zero(audio, bits, start_index) ==
    Bind(lsb_kept_bits(bits, Len(audio), 0),
         LAMBDA kept : Buf(lsb_write(audio, kept, 0)))

algo_lsb_encode(audio, bits, start_index) ==
    Bind(lsb_kept_bits(bits, Len(audio), start_index),
         LAMBDA kept : Buf(lsb_write(audio, kept, start_index)))

\* Regions of buf.fp that meet the samples a..b-1.
FpMeets(buf, a, b) ==
    \E r \in 1..Len(buf.fp) :
        buf.fp[r].pos < b /\ buf.fp[r].pos + buf.fp[r].size > a

\* The result of a body decoder: the exception it raises (None if it
\* returns), whether it loops for ever, the number n of bits it returns, the
\* bits themselves when integer arithmetic decides them, and otherwise the
\* term (decoder, inputs) that determines them.
Term(op, body, a, b, c) == [op |-> op, body |-> body, a |-> a, b |-> b, c |-> c]
NoTerm == Term("", Buf(<<>>), 0, 0, 0)
Decoded(n, bits, term) ==
    [raise |-> "", hang |-> FALSE, n |-> n, bits |-> bits, term |-> term]
Raises(exc) ==
    [raise |-> exc, hang |-> FALSE, n |-> 0, bits |-> <<>>, term |-> NoTerm]
Hangs ==
    [raise |-> "", hang |-> TRUE, n |-> 0, bits |-> <<>>, term |-> NoTerm]

\* The samples and regions a float decoder reads from index a on.
Body(buf, a) == [pcm |-> Slice(buf.pcm, a, Len(buf.pcm)), fp |-> buf.fp]

\* Variant: the whole array is decoded whatever start_index is.
algo_lsb_decode_whole(audio, start_index) ==
    Decoded(Len(audio.pcm), [i \in 1..Len(audio.pcm) |-> audio.pcm[i] % 2], NoTerm)

\* audio[start_index:] & 1 (audio & 1 when start_index is 0).
algo_lsb_decode(audio, start_index) ==
    LET n == IF start_index > 0 THEN Max(Len(audio.pcm) - start_index, 0)
                                ELSE Len(audio.pcm)
        from == IF start_index > 0 THEN start_index ELSE 0
    IN  IF FpMeets(audio, from, Len(audio.pcm))
        THEN Decoded(n, <<>>, Term("algo_lsb_decode", Body(audio, from), 0, 0, 0))
        ELSE Decoded(n, [i \in 1..n |-> audio.pcm[from + i] % 2], NoTerm)

\* -------------------------------------------------------------- Echo codec

Clip(v, lo, hi) == IF v < lo THEN lo ELSE IF v > hi THEN hi ELSE v

\* astype(np.int16) of a float in range: truncation toward zero.  v10 is the
\* value in tenths.
TruncTenths(v10) == IF v10 >= 0 THEN v10 \div 10 ELSE -((-v10) \div 10)

\* Variant: the float is cast without the clip and wraps modulo 2^16.
clip_int16_wrapping(v10) ==
    LET t == TruncTenths(v10)
    IN  ((t - INT16_MIN) % 65536) + INT16_MIN

\* np.clip(output, -32768, 32767).astype(np.int16) on one element, the last
\* statement of the Echo, Phase and DSSS encoders.  v10 is the float in
\* tenths.
clip_int16(v10) == TruncTenths(Clip(v10, 10 * INT16_MIN, 10 * INT16_MAX))

\* Bits kept by the truncation of algo_echo_encode (all of them when the
\* span fits).
echo_kept_bits(bits, audio_len, start_offset, chunk_size) ==
    IF start_offset + Len(bits) * chunk_size > audio_len
    THEN Prefix(bits, (audio_len - start_offset) \div chunk_size)
    ELSE bits

\* Variant: the delayed sample is taken from the whole array, so that the
\* echo of one chunk runs on into the next.
echo_mix_across_chunks(audio, kept, start_offset, chunk_size) ==
    LET last == start_offset + Len(kept) * chunk_size
        out(i) ==
            LET j == i - 1 - start_offset
                delay == IF kept[(j \div chunk_size) + 1] = 0
                         THEN echo_delay_0 ELSE echo_delay_1
            IN  IF j >= delay
                THEN TruncTenths(Clip(10 * audio[i] + echo_alpha * audio[i - delay],
                                      10 * INT16_MIN, 10 * INT16_MAX))
                ELSE audio[i]
    IN  [i \in 1..Len(audio) |->
            IF i > start_offset /\ i <= last THEN out(i) ELSE audio[i]]

\* Reads echo_chunk_size, echo_delay_0, echo_delay_1 and echo_alpha from the
\* application object.  lfilter with the kernel [0,...,0,alpha] of length
\* delay+1 gives echo[n] = alpha * chunk[n-delay] for n >= delay and 0
\* before; float32 holds every sum exactly for alpha 0.5 and 1.0.
echo_mix(audio, kept, start_offset, chunk_size) ==
    LET last == start_offset + Len(kept) * chunk_size
        out(i) ==
            LET j == i - 1 - start_offset
                delay == IF kept[(j \div chunk_size) + 1] = 0
                         THEN echo_delay_0 ELSE echo_delay_1
            IN  IF (j % chunk_size) >= delay
                THEN clip_int16(10 * audio[i] + echo_alpha * audio[i - delay])
                ELSE audio[i]
    IN  [i \in 1..Len(audio) |->
            IF i > start_offset /\ i <= last THEN out(i) ELSE audio[i]]

algo_echo_encode(audio, bits, start_offset) ==
    Bind(echo_kept_bits(bits, Len(audio), start_offset, echo_chunk_size),
         LAMBDA kept : Buf(echo_mix(audio, kept, start_offset, echo_chunk_size)))

\* One bit per full chunk.  The cepstrum is floating point: the bits are
\* the term, except that equal delays compare a value with itself (0).
algo_echo_decode(audio, start_offset, chunk_size, d0, d1) ==
    LET len == Len(audio.pcm)
    IN  IF start_offset + chunk_size > len THEN Decoded(0, <<>>, NoTerm)
        ELSE IF chunk_size = 0 THEN Raises("ValueError")
        ELSE IF d0 >= chunk_size \/ d1 >= chunk_size THEN Raises("IndexError")
        ELSE LET n == (len - start_offset) \div chunk_size
             IN  IF d0 = d1 /\ ~FpMeets(audio, start_offset, len)
                 THEN Decoded(n, [i \in 1..n |-> 0], NoTerm)
                 ELSE Decoded(n, <<>>, Term("algo_echo_decode",
                                   Body(audio, start_offset), chunk_size, d0, d1))

\* Variant: the bit is 0 only when the first value is strictly larger.
echo_decode_bits_strict(audio_len, start_offset, chunk_size, cepstrum) ==
    LET n == IF start_offset + chunk_size > audio_len THEN 0
             ELSE (audio_len - start_offset) \div chunk_size
    IN  [c \in 1..n |-> IF cepstrum[c][1] > cepstrum[c][2] THEN 0 ELSE 1]

\* The loop of algo_echo_decode, given for each chunk c the pair
\* cepstrum[c] = << val0, val1 >> of cepstrum values at d0 and d1 (the
\* floats themselves are not computed): one bit per whole chunk, 0 when
\* val0 >= val1.
echo_decode_bits(audio_len, start_offset, chunk_size, cepstrum) ==
    LET n == IF start_offset + chunk_size > audio_len THEN 0
             ELSE (audio_len - start_offset) \div chunk_size
    IN  [c \in 1..n |-> IF cepstrum[c][1] >= cepstrum[c][2] THEN 0 ELSE 1]

\* ------------------------------------------------------------- Phase codec

\* Segments the loop of algo_phase_encode rewrites: while bits are left and
\* a whole segment fits.
phase_segments(num_bits, audio_len, start_offset) ==
    IF audio_len < start_offset + phase_segment_size THEN 0
    ELSE Min((num_bits + bits_per_segment - 1) \div bits_per_segment,
             (audio_len - start_offset) \div phase_segment_size)

\* Every rewritten segment is the inverse FFT of its spectrum with the
\* phases of bins 20..27 forced: a region of the buffer.
algo_phase_encode(audio, bits, start_offset) ==
    LET k == phase_segments(Len(bits), Len(audio), start_offset)
    IN  [pcm |-> audio,
         fp |-> [s \in 1..k |->
                   [op |-> "phase",
                    pos |-> start_offset + (s - 1) * phase_segment_size,
                    size |-> phase_segment_size,
                    bits |-> Slice(bits, (s - 1) * bits_per_segment,
                                   s * bits_per_segment)]]]

\* Variant: the bits of a segment are placed from the highest bin down.
phase_place_reversed(bits, bit_idx, pos, m) ==
    [i \in 1..m |->
        [bit_idx |-> bit_idx + i - 1, pos |-> pos,
         freq_bin |-> phase_start_bin + bits_per_segment - i,
         phase |-> IF bits[bit_idx + i] = 0 THEN -1 ELSE 1]]

\* The for loop of algo_phase_encode in the segment at pos, placing the m
\* bits after bit index bit_idx: for every bit, its index, the start of the
\* segment, the frequency bin, and the phase set there in units of pi/2 (-1
\* for a 0, +1 for a 1).  The magnitudes and the inverse FFT are not
\* computed.
phase_place(bits, bit_idx, pos, m) ==
    [i \in 1..m |->
        [bit_idx |-> bit_idx + i - 1, pos |-> pos,
         freq_bin |-> phase_start_bin + i - 1,
         phase |-> IF bits[bit_idx + i] = 0 THEN -1 ELSE 1]]

\* The while loop of algo_phase_encode from bit index bit_idx and sample
\* pos on: the bits it places, segment by segment.
RECURSIVE phase_encode_loop(_, _, _, _)
phase_encode_loop(bits, audio_len, bit_idx, pos) ==
    IF ~(bit_idx < Len(bits) /\ pos + phase_segment_size <= audio_len)
    THEN << >>
    ELSE LET bins == (phase_segment_size \div 2) + 1
             m == Min(Min(bits_per_segment, Len(bits) - bit_idx),
                      Max(0, bins - phase_start_bin))
         IN  phase_place(bits, bit_idx, pos, m)
               \o phase_encode_loop(bits, audio_len, bit_idx + m,
                                    pos + phase_segment_size)

\* The while loop of algo_phase_decode from sample pos on: for every bit it
\* appends, the start of the segment and the frequency bin whose phase it
\* reads.
RECURSIVE phase_decode_loop(_, _, _, _)
phase_decode_loop(audio_len, pos, segment_size, start_bin) ==
    IF ~(pos + segment_size <= audio_len) THEN << >>
    ELSE LET bins == (segment_size \div 2) + 1
             m == Clip(bins - start_bin, 0, bits_per_segment)
             read == [i \in 1..m |->
                        [pos |-> pos, freq_bin |-> start_bin + i - 1]]
         IN  read \o phase_decode_loop(audio_len, pos + segment_size,
                                       segment_size, start_bin)

\* decoded_bits.append(1 if phase[freq_bin] > 0 else 0), phase in units of
\* pi/2.
phase_bit(phase) == IF phase > 0 THEN 1 ELSE 0

algo_phase_decode(audio, start_offset, segment_size, start_bin) ==
    LET len == Len(audio.pcm)
        bins == (segment_size \div 2) + 1
        per == Clip(bins - start_bin, 0, bits_per_segment)
    IN  IF start_offset + segment_size > len THEN Decoded(0, <<>>, NoTerm)
        ELSE IF segment_size = 0 THEN Raises("ValueError")
        ELSE LET n == ((len - start_offset) \div segment_size) * per
             IN  IF n = 0 THEN Decoded(0, <<>>, NoTerm)
                 ELSE Decoded(n, <<>>, Term("algo_phase_decode",
                                   Body(audio, start_offset), segment_size,
                                   start_bin, 0))

\* -------------------------------------------------------------- DSSS codec

dsss_kept_bits(bits, audio_len, start_offset, frame_size) ==
    IF start_offset + Len(bits) * frame_size > audio_len
    THEN Prefix(bits, (audio_len - start_offset) \div frame_size)
    ELSE bits

\* Each frame gets +-500 times the PN sequence of seed 12345 added and is
\* clipped: a region of the buffer.
dsss_frames(audio, kept, start_offset) ==
    [pcm |-> audio,
     fp |-> [s \in 1..Len(kept) |->
               [op |-> "dsss",
                pos |-> start_offset + (s - 1) * dsss_frame_size,
                size |-> dsss_frame_size,
                bits |-> << kept[s] >>]]]

algo_spread_spectrum_encode(audio, bits, start_offset) ==
    Bind(dsss_kept_bits(bits, Len(audio), start_offset, dsss_frame_size),
         LAMBDA kept : dsss_frames(audio, kept, start_offset))

\* The same codec computed sample by sample, for a given PN sequence
\* spread_seq of frame_size values -1 and +1 (the values numpy's generator
\* draws for seed 12345 are not computed here).  Samples, alpha * PN and their
\* sums are integers; float32 holds them exactly as long as no partial sum
\* reaches 2^24, which bounds the carriers this is applied to:
\* frame_size * (|sample| + alpha) < 2^24.

\* Variant: embedding strength 100.
dsss_embed_weak(audio, kept, start_offset, spread_seq) ==
    LET frame_size == Len(spread_seq)
        last == start_offset + Len(kept) * frame_size
        out(i) ==
            LET j == i - 1 - start_offset
                chip == 100 * spread_seq[(j % frame_size) + 1]
            IN  Clip(IF kept[(j \div frame_size) + 1] = 1
                     THEN audio[i] + chip ELSE audio[i] - chip,
                     INT16_MIN, INT16_MAX)
    IN  [i \in 1..Len(audio) |->
            IF i > start_offset /\ i <= last THEN out(i) ELSE audio[i]]

\* output[start:end] += alpha * spread_seq (bit 1) or -= (bit 0) for every
\* kept bit, then np.clip(output, -32768, 32767).astype(np.int16).
dsss_embed(audio, kept, start_offset, spread_seq) ==
    LET frame_size == Len(spread_seq)
        last == start_offset + Len(kept) * frame_size
        out(i) ==
            LET j == i - 1 - start_offset
                chip == dsss_alpha * spread_seq[(j % frame_size) + 1]
            IN  clip_int16(10 * (IF kept[(j \div frame_size) + 1] = 1
                                 THEN audio[i] + chip ELSE audio[i] - chip))
    IN  [i \in 1..Len(audio) |->
            IF i > start_offset /\ i <= last THEN out(i) ELSE audio[i]]

\* np.sum(frame * spread_seq) for the frame that starts after sample pos,
\* over the chips lo..hi.
RECURSIVE dsss_dot(_, _, _, _, _)
dsss_dot(audio, pos, spread_seq, lo, hi) ==
    IF lo > hi THEN 0
    ELSE IF lo = hi THEN audio[pos + lo] * spread_seq[lo]
    ELSE LET mid == (lo + hi) \div 2
         IN  dsss_dot(audio, pos, spread_seq, lo, mid)
               + dsss_dot(audio, pos, spread_seq, mid + 1, hi)

\* Variant: a zero correlation decodes as 0.
dsss_decode_bits_strict(audio, start_offset, spread_seq) ==
    LET frame_size == Len(spread_seq)
        n == IF start_offset + frame_size > Len(audio) THEN 0
             ELSE (Len(audio) - start_offset) \div frame_size
    IN  [f \in 1..n |->
            IF dsss_dot(audio, start_offset + (f - 1) * frame_size,
                        spread_seq, 1, frame_size) > 0
            THEN 1 ELSE 0]

\* The bits algo_spread_spectrum_decode returns: one per whole frame, 1 when
\* the correlation sum / frame_size is >= 0.
dsss_decode_bits(audio, start_offset, spread_seq) ==
    LET frame_size == Len(spread_seq)
        n == IF start_offset + frame_size > Len(audio) THEN 0
             ELSE (Len(audio) - start_offset) \div frame_size
    IN  [f \in 1..n |->
            IF dsss_dot(audio, start_offset + (f - 1) * frame_size,
                        spread_seq, 1, frame_size) >= 0
            THEN 1 ELSE 0]

\* algo_spread_spectrum_encode for the PN sequence spread_seq.
dsss_encode_samples(audio, bits, start_offset, spread_seq) ==
    Bind(dsss_kept_bits(bits, Len(audio), start_offset, Len(spread_seq)),
         LAMBDA kept : dsss_embed(audio, kept, start_offset, spread_seq))

\* With frame_size 0 the position never advances and the loop never ends.
algo_spread_spectrum_decode(audio, start_offset, frame_size) ==
    LET len == Len(audio.pcm)
    IN  IF start_offset + frame_size > len THEN Decoded(0, <<>>, NoTerm)
        ELSE IF frame_size = 0 THEN Hangs
        ELSE Decoded((len - start_offset) \div frame_size, <<>>,
                     Term("algo_spread_spectrum_decode",
                          Body(audio, start_offset), frame_size, 0, 0))

\* ------------------------------------------------------ capacity calculator

\* bytes_avail of get_max_kb for total_samples samples.
bytes_avail(total_samples, algo, chunk_len) ==
    CASE algo = LSB   -> (total_samples \div 8) - header_bytes
      [] algo = ECHO  -> ((total_samples \div chunk_len) \div 8) - header_bytes
      [] algo = DSSS  -> ((total_samples \div dsss_frame_size) \div 8) - header_bytes
      [] algo = PHASE -> (total_samples \div phase_segment_size) - header_bytes

\* Variant: bytes_avail returned without the max(0, ...).
max_bytes_unclamped(total_samples, algo, chunk_len) ==
    bytes_avail(total_samples, algo, chunk_len)

\* max(0, bytes_avail / 1024) in units of 1/1024 KB (bytes): the code returns
\* this number divided by 1024, and every use compares it with sizes divided
\* by 1024.
max_bytes(total_samples, algo, chunk_len) ==
    Max(0, bytes_avail(total_samples, algo, chunk_len))

\* The capacity of the loaded carrier under the selected method, in bytes.
get_max_kb ==
    IF audio_data = None THEN 0
    ELSE max_bytes(Len(Val(audio_data)), algo_var, echo_chunk_size)

\* Variant: the 32 bytes of overhead are not added to the payload size.
capacity_check_no_overhead ==
    IF carrier_path = None THEN "keep"
    ELSE IF payload_path = None THEN "keep"
    ELSE IF Len(Val(payload_path)) > get_max_kb
         THEN "disabled" ELSE "normal"

\* What update_capacity_check does to the two buttons: "keep" when it
\* returns before touching them.
capacity_check ==
    IF carrier_path = None THEN "keep"
    ELSE IF payload_path = None THEN "keep"
    ELSE IF Len(Val(payload_path)) + overhead_bytes > get_max_kb
         THEN "disabled" ELSE "normal"

\* update_capacity_check run at the end of a handler, on the new state.
update_capacity_check ==
    /\ btn_bake' = IF capacity_check' = "keep" THEN btn_bake ELSE capacity_check'
    /\ btn_play_stego' =
           IF capacity_check' = "keep" THEN btn_play_stego ELSE capacity_check'

\* ------------------------------------------------------------ orchestrators

\* What a call returned or raised, and self.audio_data after the call.
Returned(kind, buf, carrier) == [kind |-> kind, audio |-> buf, carrier |-> carrier]

\* Variant: audio_copy = self.audio_data, the carrier's own array.
copy_shares_memory(array) == [pcm |-> array, shares |-> TRUE]

\* ndarray.copy(): a new array with the same samples.
copy(array) == [pcm |-> array, shares |-> FALSE]

\* self.audio_data once the working array work holds the samples content:
\* writes to work reach the carrier only if the two share memory.
carrier_after(work, content) ==
    IF work.shares THEN Some(content) ELSE audio_data

algo_id_of(algo_name) ==
    CASE algo_name = ECHO -> 2
      [] algo_name = DSSS -> 4
      [] algo_name = PHASE -> 3
      [] OTHER -> 1

\* Variant: the two Echo delays change places in the header.
header_params_swapped(algo_name) ==
    CASE algo_name = ECHO -> << echo_chunk_size, echo_delay_1, echo_delay_0 >>
      [] algo_name = DSSS -> << dsss_frame_size, 0, 0 >>
      [] algo_name = PHASE -> << phase_segment_size, phase_start_bin, 0 >>
      [] OTHER -> << 0, 0, 0 >>

\* (p1, p2, p3) written into the header.
header_params(algo_name) ==
    CASE algo_name = ECHO -> << echo_chunk_size, echo_delay_0, echo_delay_1 >>
      [] algo_name = DSSS -> << dsss_frame_size, 0, 0 >>
      [] algo_name = PHASE -> << phase_segment_size, phase_start_bin, 0 >>
      [] OTHER -> << 0, 0, 0 >>

\* The value process_steganography returns: None, the stego buffer, or the
\* AttributeError of the call of the missing method update_status.
process_steganography ==
    IF audio_data = None \/ payload_path = None
    THEN Returned("None", Buf(<<>>), audio_data)
    ELSE
      LET data == Val(payload_path)
          payload_len == Len(data)
          start_offset == HEADER_OFFSET
          algo_id == algo_id_of(algo_var)
          p == header_params(algo_var)
          header == create_smart_header(algo_id, p[1], p[2], p[3], U32(payload_len))
          work == copy(Val(audio_data))
          \* algo_lsb_encode writes into the array it is given and returns
          \* it; the other encoders build their output in a copy of it.
          body(audio_copy, bits_to_encode) ==
            CASE algo_id = 2 ->
                   Bind(algo_echo_encode(audio_copy, bits_to_encode, start_offset),
                        LAMBDA out : Returned("audio", out, carrier_after(work, audio_copy)))
              [] algo_id = 4 ->
                   Bind(algo_spread_spectrum_encode(audio_copy, bits_to_encode, start_offset),
                        LAMBDA out : Returned("audio", out, carrier_after(work, audio_copy)))
              [] algo_id = 3 ->
                   Bind(algo_phase_encode(audio_copy, bits_to_encode, start_offset),
                        LAMBDA out : Returned("audio", out, carrier_after(work, audio_copy)))
              [] OTHER ->
                   Bind(algo_lsb_encode(audio_copy, bits_to_encode, start_offset),
                        LAMBDA out : Returned("audio", out, carrier_after(work, out.pcm)))
          encode(bits_to_encode, header_bits) ==
            IF Len(work.pcm) < Len(header_bits) + start_offset
            THEN Returned("AttributeError", Buf(<<>>), audio_data)
            ELSE
              Bind(write_header_bits(work.pcm, header_bits),
                   LAMBDA audio_copy : body(audio_copy, bits_to_encode))
      IN  Bind(unpackbits(data), LAMBDA bits_to_encode :
            Bind(unpackbits(header), LAMBDA header_bits :
              encode(bits_to_encode, header_bits)))

\* (p1, p2, p3) of the header generate_preview writes.
preview_header_params(algo_name) ==
    CASE algo_name = ECHO -> << echo_chunk_size, 100, 150 >>
      [] algo_name = DSSS -> << dsss_frame_size, 0, 0 >>
      [] algo_name = PHASE -> << phase_segment_size, phase_start_bin, 0 >>
      [] OTHER -> << 0, 0, 0 >>

\* generate_preview with bits the 1000 bits np.random.randint drew.  kind
\* "None": returned at once; "ValueError": the header assignment raised
\* (fewer than 120 samples); "Preview Error": the encoder raised and the
\* except clause printed it; "audio": processed_audio was set to the buffer.
\* Below start_offset samples algo_lsb_encode assigns its bits to an empty
\* slice and raises, and the other encoders return the samples unchanged.
generate_preview(bits) ==
    IF audio_data = None THEN Returned("None", Buf(<<>>), audio_data)
    ELSE
      LET start_offset == HEADER_OFFSET
          algo_id == algo_id_of(algo_var)
          p == preview_header_params(algo_var)
          header == create_smart_header(algo_id, p[1], p[2], p[3], U32(dummy_len))
          work == copy(Val(audio_data))
          body(audio_copy) ==
            IF Len(audio_copy) < start_offset
            THEN IF algo_id \in {2, 3, 4}
                 THEN Returned("audio", Buf(audio_copy), carrier_after(work, audio_copy))
                 ELSE Returned("Preview Error", Buf(<<>>), carrier_after(work, audio_copy))
            ELSE
              CASE algo_id = 2 ->
                     Bind(algo_echo_encode(audio_copy, bits, start_offset),
                          LAMBDA out : Returned("audio", out, carrier_after(work, audio_copy)))
                [] algo_id = 4 ->
                     Bind(algo_spread_spectrum_encode(audio_copy, bits, start_offset),
                          LAMBDA out : Returned("audio", out, carrier_after(work, audio_copy)))
                [] algo_id = 3 ->
                     Bind(algo_phase_encode(audio_copy, bits, start_offset),
                          LAMBDA out : Returned("audio", out, carrier_after(work, audio_copy)))
                [] OTHER ->
                     Bind(algo_lsb_encode(audio_copy, bits, start_offset),
                          LAMBDA out : Returned("audio", out, carrier_after(work, out.pcm)))
      IN  IF Len(work.pcm) < bits_needed
          THEN Returned("ValueError", Buf(<<>>), audio_data)
          ELSE Bind(write_header_bits(work.pcm, unpackbits(header)), body)

\* np.pad(decoded_bits, (0, total - len)) then decoded_bits[:total].
pad_trim(bits, total) ==
    [i \in 1..total |-> IF i <= Len(bits) THEN bits[i] ELSE 0]

\* decoder names the body decoder that was called, "" when none was.
Outcome(status, len, payload, nbits, term, saved) ==
    [status |-> status, payload_len |-> len, payload |-> payload,
     nbits |-> nbits, term |-> term, saved |-> saved, decoder |-> ""]
Failure(status) == Outcome(status, U32(0), <<>>, 0, NoTerm, FALSE)

\* Variant: the decoder is the one of the method selected on the encode tab.
dispatch_decoder_selected(audio, header) ==
    CASE algo_var = ECHO ->
           algo_echo_decode(audio, HEADER_OFFSET, header.p1, header.p2, header.p3)
      [] algo_var = PHASE ->
           algo_phase_decode(audio, HEADER_OFFSET, header.p1, header.p2)
      [] algo_var = DSSS ->
           algo_spread_spectrum_decode(audio, HEADER_OFFSET, header.p1)
      [] OTHER -> algo_lsb_decode(audio, HEADER_OFFSET)

\* The body decoder extract_file selects for a parsed header.
dispatch_decoder(audio, header) ==
    CASE header.algo_id = 2 ->
           algo_echo_decode(audio, HEADER_OFFSET, header.p1, header.p2, header.p3)
      [] header.algo_id = 3 ->
           algo_phase_decode(audio, HEADER_OFFSET, header.p1, header.p2)
      [] header.algo_id = 4 ->
           algo_spread_spectrum_decode(audio, HEADER_OFFSET, header.p1)
      [] OTHER -> algo_lsb_decode(audio, HEADER_OFFSET)

\* What extract_file does with decode_audio_data; save_path tells whether
\* the save dialog returned a path.  status "decoded": payload_bytes was
\* built (payload when the bits are integers, else nbits bits of term padded
\* and trimmed to payload_len bytes).  A payload_len of 65536 or more is
\* beyond the sizes built here: status "pad" stands for what np.pad and
\* np.packbits make of it.
reconstruct(h, dec, save_path) ==
    LET total_bits_needed == h.payload_len.lo * 8
    IN  IF dec.hang THEN Failure("hang")
        ELSE IF dec.raise # "" THEN Failure("exception")
        ELSE IF dec.n = 0 THEN Failure("no_data")
        ELSE IF h.payload_len.hi > 0 THEN Failure("pad")
        ELSE IF dec.term = NoTerm
             THEN Outcome("decoded", h.payload_len,
                          packbits(pad_trim(dec.bits, total_bits_needed)),
                          dec.n, NoTerm, save_path)
             ELSE Outcome("decoded", h.payload_len, <<>>,
                          dec.n, dec.term, save_path)

decoder_name(algo_id) ==
    CASE algo_id = 2 -> "algo_echo_decode"
      [] algo_id = 3 -> "algo_phase_decode"
      [] algo_id = 4 -> "algo_spread_spectrum_decode"
      [] OTHER -> "algo_lsb_decode"

\* Variant: an algorithm id other than 2, 3 and 4 is decoded as LSB.
decode_with_lsb_fallback(audio, header, save_path) ==
    IF header = None THEN Failure("no_header")
    ELSE Bind(dispatch_decoder(audio, Val(header)),
              LAMBDA dec : [reconstruct(Val(header), dec, save_path)
                              EXCEPT !.decoder = decoder_name(Val(header).algo_id)])

\* extract_file after read_smart_header returned header.
decode_with(audio, header, save_path) ==
    IF header = None THEN Failure("no_header")
    ELSE IF Val(header).algo_id \notin {1, 2, 3, 4} THEN Failure("unknown_algo")
    ELSE Bind(dispatch_decoder(audio, Val(header)),
              LAMBDA dec : [reconstruct(Val(header), dec, save_path)
                              EXCEPT !.decoder = decoder_name(Val(header).algo_id)])

\* extract_file on the buffer audio.
extract_from(audio, save_path) ==
    Bind(read_smart_header(audio.pcm),
         LAMBDA header : decode_with(audio, header, save_path))

extract_file(save_path) == extract_from(Val(decode_audio_data), save_path)

\* ------------------------------------------------------------------ inputs

\* WAV files the user can pick: n samples cycling through even, odd,
\* negative and extreme int16 values (pattern 0) or silence (pattern 1).
CarrierCycle == << 0, 1, -1, -2, 32767, -32768, 12345, -12346, 2, 32766, -32767 >>
Carrier(n, pattern) ==
    [i \in 1..n |-> IF pattern = 0 THEN CarrierCycle[((i - 1) % 11) + 1] ELSE 0]

MinEncodable == HEADER_OFFSET + bits_needed

\* Payload files: n bytes, none of them 0.
PayloadFile(n) == [i \in 1..n |-> ((37 * i) % 251) + 1]

CarrierLens == {MinEncodable - 1, MinEncodable + ExtraSamples}
\* The last length is the largest payload the capacity check lets through
\* for LSB on a carrier of MinEncodable samples.
PayloadLens == {0, bits_needed \div 8, (bits_needed \div 8) + 1,
                (MinEncodable \div 8) - header_bytes - overhead_bytes}
ChunkSizes == {256}
Delays0 == {100}
Delays1 == {150}
Alphas == {10}

\* A file holding buffer buf with bit 0 of sample i flipped.
FlipBit(buf, i) ==
    [buf EXCEPT !.pcm[i + 1] = IF @ % 2 = 0 THEN @ + 1 ELSE @ - 1]

\* A WAV file of n samples whose first 120 LSBs spell a header.
Crafted(n, algo_id, p1, p2, p3, len) ==
    Buf(write_header_bits(Carrier(n, 0),
            unpackbits(create_smart_header(algo_id, p1, p2, p3, U32(len)))))

CraftedFiles ==
    { Buf(Carrier(MinEncodable, 0)),
      Crafted(MinEncodable, 1, 0, 0, 0, 17),
      Crafted(MinEncodable, 2, 60, 10, 20, 1),
      Crafted(MinEncodable, 3, 64, 20, 0, 1),
      Crafted(MinEncodable, 4, 64, 0, 0, 1),
      Crafted(MinEncodable, 9, 0, 0, 0, 1) }

NoEncode ==
    [carrier |-> None, payload |-> None, algo |-> "", chunk |-> 0, d0 |-> 0,
     d1 |-> 0, alpha |-> 0, res |-> Returned("", Buf(<<>>), None)]
NoExtract == [audio |-> None, cfg |-> << >>, out |-> Failure("")]

\* ------------------------------------------------------- the application

Init ==
    /\ carrier_path = None
    /\ audio_data = None
    /\ payload_path = None
    /\ algo_var = LSB
    /\ echo_chunk_size = 2048
    /\ echo_delay_0 = 50
    /\ echo_delay_1 = 200
    /\ echo_alpha = 5
    /\ btn_bake = "disabled"
    /\ btn_play_stego = "normal"
    /\ last_encode = NoEncode
    /\ decode_audio_data = None
    /\ last_extract = NoExtract
    /\ prev_extract = NoExtract
    /\ events = 0
    /\ probe = <<>>

\* The handler of an event runs to its end before the next event is taken;
\* an extract_file that never returns takes no further event.
Responsive == events < MaxEvents /\ last_extract.out.status # "hang"

encodeTab == << carrier_path, audio_data, payload_path, algo_var,
                echo_chunk_size, echo_delay_0, echo_delay_1, echo_alpha,
                btn_bake, btn_play_stego >>
encodeSettings == << carrier_path, payload_path, algo_var, echo_chunk_size,
                     echo_delay_0, echo_delay_1, echo_alpha, btn_bake,
                     btn_play_stego >>
decodeTab == << decode_audio_data, last_extract, prev_extract >>

load_carrier(n) ==
    /\ Responsive
    /\ carrier_path' = Some(n)
    /\ audio_data' = Some(Carrier(n, 0))
    /\ UNCHANGED << payload_path, algo_var, echo_chunk_size, echo_delay_0,
                    echo_delay_1, echo_alpha >>
    /\ update_capacity_check
    /\ events' = events + 1
    /\ UNCHANGED << last_encode, decodeTab, probe >>

\* wav.read raises: the path is kept, the error is shown, nothing else runs.
load_carrier_error ==
    /\ Responsive
    /\ carrier_path' = Some(0)
    /\ events' = events + 1
    /\ UNCHANGED << audio_data, payload_path, algo_var, echo_chunk_size,
                    echo_delay_0, echo_delay_1, echo_alpha, btn_bake,
                    btn_play_stego, last_encode, decodeTab, probe >>

load_payload(data) ==
    /\ Responsive
    /\ payload_path' = Some(data)
    /\ UNCHANGED << carrier_path, audio_data, algo_var, echo_chunk_size,
                    echo_delay_0, echo_delay_1, echo_alpha >>
    /\ update_capacity_check
    /\ events' = events + 1
    /\ UNCHANGED << last_encode, decodeTab, probe >>

on_algo_change(algo) ==
    /\ Responsive
    /\ algo_var' = algo
    /\ UNCHANGED << carrier_path, audio_data, payload_path, echo_chunk_size,
                    echo_delay_0, echo_delay_1, echo_alpha >>
    /\ update_capacity_check
    /\ events' = events + 1
    /\ UNCHANGED << last_encode, decodeTab, probe >>

\* The chunk-size spinbox: the write trace runs update_capacity_check.
spin_chunk(v) ==
    /\ Responsive
    /\ echo_chunk_size' = v
    /\ UNCHANGED << carrier_path, audio_data, payload_path, algo_var,
                    echo_delay_0, echo_delay_1, echo_alpha >>
    /\ update_capacity_check
    /\ events' = events + 1
    /\ UNCHANGED << last_encode, decodeTab, probe >>

\* The delay and alpha spinboxes only set their variable.
spin_echo(d0, d1, alpha) ==
    /\ Responsive
    /\ echo_delay_0' = d0
    /\ echo_delay_1' = d1
    /\ echo_alpha' = alpha
    /\ events' = events + 1
    /\ UNCHANGED << carrier_path, audio_data, payload_path, algo_var,
                    echo_chunk_size, btn_bake, btn_play_stego, last_encode,
                    decodeTab, probe >>

reset_echo_defaults ==
    /\ Responsive
    /\ echo_chunk_size' = 2048
    /\ echo_delay_0' = 50
    /\ echo_delay_1' = 200
    /\ echo_alpha' = 5
    /\ UNCHANGED << carrier_path, audio_data, payload_path, algo_var >>
    /\ update_capacity_check
    /\ events' = events + 1
    /\ UNCHANGED << last_encode, decodeTab, probe >>

\* The record of one run of process_steganography on the current fields.
encode_run ==
    [carrier |-> audio_data, payload |-> payload_path, algo |-> algo_var,
     chunk |-> echo_chunk_size, d0 |-> echo_delay_0, d1 |-> echo_delay_1,
     alpha |-> echo_alpha, res |-> process_steganography]

\* "Generate & Save Output File" with a path chosen: the button must be
\* enabled; wav.write stores what process_steganography returned.
save_stego_file ==
    /\ Responsive
    /\ btn_bake = "normal"
    /\ \E run \in {encode_run} :
          /\ last_encode' = run
          /\ audio_data' = run.res.carrier
    /\ events' = events + 1
    /\ UNCHANGED << encodeSettings, decodeTab, probe >>

\* The stego file on disk, if the last save wrote one.
StegoFiles ==
    IF last_encode.res.kind = "audio" THEN {last_encode.res.audio} ELSE {}

\* Files the user can pick on the decode tab: the stego file, the stego file
\* with bit 0 of one header sample flipped, or another WAV file.
DecodeFiles ==
    StegoFiles
    \cup { FlipBit(f, i) : f \in StegoFiles, i \in 0..(bits_needed - 1) }
    \cup CraftedFiles

\* The fields of the application extract_file has no business reading.
app_settings == << carrier_path, algo_var, echo_chunk_size, echo_delay_0,
                  echo_delay_1, echo_alpha >>

load_decode_audio(file) ==
    /\ Responsive
    /\ decode_audio_data' = Some(file)
    /\ events' = events + 1
    /\ UNCHANGED << encodeTab, last_encode, last_extract, prev_extract, probe >>

extract_file_click(save_path) ==
    /\ Responsive
    /\ decode_audio_data # None
    /\ prev_extract' = last_extract
    /\ last_extract' = [audio |-> decode_audio_data, cfg |-> app_settings,
                        out |-> extract_file(save_path)]
    /\ events' = events + 1
    /\ UNCHANGED << encodeTab, last_encode, decode_audio_data, probe >>

Next ==
    \/ \E n \in CarrierLens : load_carrier(n)
    \/ load_carrier_error
    \/ \E n \in PayloadLens : load_payload(PayloadFile(n))
    \/ \E a \in AlgoValues : on_algo_change(a)
    \/ \E v \in ChunkSizes : spin_chunk(v)
    \/ \E d0 \in Delays0, d1 \in Delays1, a \in Alphas : spin_echo(d0, d1, a)
    \/ reset_echo_defaults
    \/ save_stego_file
    \/ \E f \in DecodeFiles : load_decode_audio(f)
    \/ \E sp \in BOOLEAN : extract_file_click(sp)

Spec == Init /\ [][Next]_vars

\* ------------------------------- the encode functions called on their own

\* process_steganography or generate_preview applied once to fields drawn
\* from bounded sets: every algorithm, carriers of header length, too
\* short, just long enough, long enough for one Phase segment and for one
\* DSSS frame, spinbox values of the Echo parameters.  The buttons are as
\* update_capacity_check leaves them.  After process_steganography the
\* decode tab loads a file and extract_file runs on it.
EncCarrierLens == { bits_needed, MinEncodable - 1, MinEncodable,
                    HEADER_OFFSET + phase_segment_size + ExtraSamples,
                    HEADER_OFFSET + dsss_frame_size }
EncPayloadLens == { 0, 1, (bits_needed \div 8) + 1,
                    (MinEncodable \div 8) - header_bytes + 1 }
EncChunkSizes == {256, 2048}
EncDelays0 == {50, 100}
EncDelays1 == {50, 200}
EncAlphas == {5, 10}

\* The Echo spinboxes are varied under Echo Hiding only; under the other
\* methods, which ignore them, they keep one value.
EncEchoSettings(algo, values) ==
    IF algo = ECHO THEN values ELSE {CHOOSE v \in values : \A w \in values : v >= w}

EncInit ==
    /\ \E n \in EncCarrierLens, pattern \in {0, 1} :
          /\ carrier_path = Some(n)
          /\ audio_data = Some(Carrier(n, pattern))
    /\ \E n \in EncPayloadLens : payload_path = Some(PayloadFile(n))
    /\ algo_var \in AlgoValues
    /\ echo_chunk_size \in EncEchoSettings(algo_var, EncChunkSizes)
    /\ echo_delay_0 \in EncEchoSettings(algo_var, EncDelays0)
    /\ echo_delay_1 \in EncEchoSettings(algo_var, EncDelays1)
    /\ echo_alpha \in EncEchoSettings(algo_var, EncAlphas)
    /\ btn_bake = capacity_check
    /\ btn_play_stego = capacity_check
    /\ last_encode = NoEncode
    /\ decode_audio_data = None
    /\ last_extract = NoExtract
    /\ prev_extract = NoExtract
    /\ events = 0
    /\ probe = [fn |-> "generate_preview", done |-> FALSE]

process_steganography_call ==
    /\ last_encode = NoEncode /\ ~probe.done
    /\ \E run \in {encode_run} :
          /\ last_encode' = run
          /\ audio_data' = run.res.carrier
    /\ UNCHANGED << encodeSettings, decodeTab, events, probe >>

\* The 1000 bits np.random.randint(0, 2, 1000) can draw: three of them.
preview_len == 1000
PreviewBits ==
    { [i \in 1..preview_len |-> 0], [i \in 1..preview_len |-> 1],
      [i \in 1..preview_len |-> i % 2] }

\* generate_preview run once on the drawn fields; probe keeps what it drew
\* and what it made of self.processed_audio.  generate_preview does not read
\* payload_path, so it is run with the shortest payload only.
generate_preview_call(bits) ==
    /\ ~probe.done /\ last_encode = NoEncode
    /\ \A n \in EncPayloadLens : Len(Val(payload_path)) <= n
    /\ \E run \in {generate_preview(bits)} :
          /\ probe' = [fn |-> "generate_preview", done |-> TRUE,
                       bits |-> bits, carrier |-> audio_data,
                       kind |-> run.kind,
                       processed_audio |->
                           IF run.kind = "audio" THEN Some(run.audio) ELSE None]
          /\ audio_data' = run.carrier
    /\ UNCHANGED << encodeSettings, last_encode, decodeTab, events >>

\* The WAV file opened on the decode tab after the encoder ran: the stego
\* file if one was produced, else a file of the carrier's length whose
\* first samples carry the header of the current settings and nothing more.
HeaderOnlyFile ==
    LET p == header_params(algo_var)
        header == create_smart_header(algo_id_of(algo_var), p[1], p[2], p[3],
                                      U32(Len(Val(payload_path))))
    IN  Buf(write_header_bits(Val(last_encode.carrier), unpackbits(header)))
EncDecodeFiles ==
    IF last_encode = NoEncode THEN {}
    ELSE IF last_encode.res.kind = "audio" THEN StegoFiles
    ELSE {HeaderOnlyFile}

load_decode_audio_call(file) ==
    /\ last_encode # NoEncode /\ decode_audio_data = None
    /\ decode_audio_data' = Some(file)
    /\ UNCHANGED << encodeTab, last_encode, last_extract, prev_extract,
                    events, probe >>

extract_file_call ==
    /\ decode_audio_data # None /\ last_extract = NoExtract
    /\ prev_extract' = last_extract
    /\ last_extract' = [audio |-> decode_audio_data, cfg |-> app_settings,
                        out |-> extract_file(TRUE)]
    /\ UNCHANGED << encodeTab, last_encode, decode_audio_data, events, probe >>

EncNext ==
    \/ process_steganography_call
    \/ \E bits \in PreviewBits : generate_preview_call(bits)
    \/ \E f \in EncDecodeFiles : load_decode_audio_call(f)
    \/ extract_file_call

EncSpec == EncInit /\ [][EncNext]_vars

\* ------------------------------------------------- the preview threads

\* load_carrier, load_payload and on_algo_change each start a daemon thread
\* that runs generate_preview while the main thread goes on taking events.
\* probe holds self.processed_audio, the threads (pc "started": not yet
\* run; "encoded": the encoder returned out and self.processed_audio is not
\* yet assigned; "done"), the number of update_plots callbacks queued by
\* root.after and what the last update_plots did.
MaxThreads == 2
PvCarrierLens == {bits_needed, MinEncodable}
PvPayloadLens == {1}

Thread(pc, out) == [pc |-> pc, out |-> out]

PvInit ==
    /\ carrier_path = None
    /\ audio_data = None
    /\ payload_path = None
    /\ algo_var = LSB
    /\ echo_chunk_size = 2048
    /\ echo_delay_0 = 50
    /\ echo_delay_1 = 200
    /\ echo_alpha = 5
    /\ btn_bake = "disabled"
    /\ btn_play_stego = "normal"
    /\ last_encode = NoEncode
    /\ decode_audio_data = None
    /\ last_extract = NoExtract
    /\ prev_extract = NoExtract
    /\ events = 0
    /\ probe = [fn |-> "preview", processed_audio |-> None,
                threads |-> << >>, after |-> 0, plots |-> ""]

\* threading.Thread(target=self.generate_preview, daemon=True).start()
start_thread(threads) == Append(threads, Thread("started", None))

\* update_plots on the fields it reads: it returns at once without a
\* carrier, and diff = self.processed_audio - self.audio_data raises
\* ValueError when the two arrays differ in length.
update_plots(audio, processed) ==
    IF audio = None THEN "return"
    ELSE IF processed = None THEN "original"
    ELSE IF Len(Val(processed).pcm) # Len(Val(audio)) THEN "ValueError"
    ELSE "diff"

load_carrier_preview(n) ==
    /\ Len(probe.threads) < MaxThreads
    /\ carrier_path' = Some(n)
    /\ audio_data' = Some(Carrier(n, 0))
    /\ UNCHANGED << payload_path, algo_var, echo_chunk_size, echo_delay_0,
                    echo_delay_1, echo_alpha >>
    /\ update_capacity_check
    /\ probe' = [probe EXCEPT !.processed_audio = None,
                              !.plots = update_plots(audio_data', None),
                              !.threads = start_thread(@)]
    /\ UNCHANGED << last_encode, decodeTab, events >>

load_payload_preview(data) ==
    /\ Len(probe.threads) < MaxThreads
    /\ payload_path' = Some(data)
    /\ UNCHANGED << carrier_path, audio_data, algo_var, echo_chunk_size,
                    echo_delay_0, echo_delay_1, echo_alpha >>
    /\ update_capacity_check
    /\ probe' = [probe EXCEPT !.threads = start_thread(@)]
    /\ UNCHANGED << last_encode, decodeTab, events >>

on_algo_change_preview(algo) ==
    /\ Len(probe.threads) < MaxThreads
    /\ algo # algo_var
    /\ algo_var' = algo
    /\ UNCHANGED << carrier_path, audio_data, payload_path, echo_chunk_size,
                    echo_delay_0, echo_delay_1, echo_alpha >>
    /\ update_capacity_check
    /\ probe' = [probe EXCEPT !.threads = IF audio_data # None
                                          THEN start_thread(@) ELSE @]
    /\ UNCHANGED << last_encode, decodeTab, events >>

\* Thread t runs generate_preview up to the return of the encoder: it reads
\* self.audio_data and self.algo_var as they are now.  A preview that
\* returns early or raises assigns nothing.
thread_encode(t, bits) ==
    /\ probe.threads[t].pc = "started"
    /\ \E run \in {generate_preview(bits)} :
          probe' = [probe EXCEPT !.threads[t] =
                       IF run.kind = "audio"
                       THEN Thread("encoded", Some(run.audio))
                       ELSE Thread("done", None)]
    /\ UNCHANGED << encodeTab, last_encode, decodeTab, events >>

\* Thread t assigns self.processed_audio and queues update_plots.
thread_assign(t) ==
    /\ probe.threads[t].pc = "encoded"
    /\ probe' = [probe EXCEPT !.processed_audio = probe.threads[t].out,
                              !.after = @ + 1,
                              !.threads[t] = Thread("done", None)]
    /\ UNCHANGED << encodeTab, last_encode, decodeTab, events >>

\* The main loop runs a queued update_plots.
update_plots_callback ==
    /\ probe.after > 0
    /\ probe' = [probe EXCEPT !.after = @ - 1,
                              !.plots = update_plots(audio_data,
                                                     probe.processed_audio)]
    /\ UNCHANGED << encodeTab, last_encode, decodeTab, events >>

PvNext ==
    \/ \E n \in PvCarrierLens : load_carrier_preview(n)
    \/ \E n \in PvPayloadLens : load_payload_preview(PayloadFile(n))
    \/ \E a \in AlgoValues : on_algo_change_preview(a)
    \/ \E t \in 1..Len(probe.threads), bits \in PreviewBits :
          thread_encode(t, bits)
    \/ \E t \in 1..Len(probe.threads) : thread_assign(t)
    \/ update_plots_callback

PreviewSpec == PvInit /\ [][PvNext]_vars

\* ------------------------------------------------- the codecs as functions

\* One call of a pure function of the program on arguments drawn from
\* bounded sets; probe keeps the arguments and, once done, the results.

SampleVals == {INT16_MIN, -1, 0, INT16_MAX}
\* Start indices of the LSB probes run up to this far past the array's end.
LsbPastEnd == 2
Arrays(S) == UNION { [1..m -> S] : m \in 0..MaxLen }

\* Header fields at the edges of their struct formats.
ByteVals == {0, 1, 4, 255}
WordVals == {0, 255, 256, 65535}
LimbVals == {0, 1, 65535}

\* 15 header bytes: a built header, one byte of it overwritten, and
\* optionally the trailing checksum recomputed for the overwritten bytes.
BaseHeaders ==
    { create_smart_header(1, 0, 0, 0, U32(13)),
      create_smart_header(2, 2048, 50, 200, [hi |-> 65535, lo |-> 65535]),
      create_smart_header(255, 65535, 65535, 65535, [hi |-> 1, lo |-> 0]) }
Refix(hb) ==
    LET c == SumSeq(Slice(hb, 0, 13)) % 65536
    IN  [hb EXCEPT ![14] = c % 256, ![15] = c \div 256]
Overwrite(hb, j, v, refix) ==
    LET m == [hb EXCEPT ![j] = v] IN IF refix THEN Refix(m) ELSE m
OverwriteVals(hb, j) == {0, 115, 116, 255, (hb[j] + 1) % 256}

\* Carrier lengths at the edges of each capacity formula: the shortest
\* carriers with a capacity of 0, 1 and more bytes.
CapLens(algo, chunk) ==
    CASE algo = LSB   -> { MinEncodable, MinEncodable + 1, 2048 }
      [] algo = ECHO  -> { 40 * chunk - 1, 40 * chunk, 48 * chunk }
      [] algo = DSSS  -> { 40 * dsss_frame_size - 1, 40 * dsss_frame_size,
                           48 * dsss_frame_size }
      [] algo = PHASE -> { 4 * phase_segment_size, 5 * phase_segment_size,
                           5 * phase_segment_size + 1, 9 * phase_segment_size }

\* Carriers shorter than the four reserved bytes: bytes_avail is negative.
ShortLens == {0, 31, 32}

\* Files for extract_file: a valid header of every algorithm id class on
\* buffers that end at the header, at HEADER_OFFSET and after it.
ExtractLens == {bits_needed, HEADER_OFFSET, MinEncodable}
ExtractAlgoIds == {0, 1, 2, 3, 4, 5, 255}
ExtractParams == {<< 0, 0, 0 >>, << 60, 10, 20 >>}
ExtractPayloadLens == {0, 1, (bits_needed \div 8) + 2}

\* DSSS probes.  PN sequences of frame_size chips; carriers of one or two
\* frames after HEADER_OFFSET whose body is k times the PN sequence (the
\* carrier most correlated with it) or the constant k, with small samples
\* before HEADER_OFFSET.
SpreadSeqIds == {1, 2}
SpreadSeq(id) ==
    [i \in 1..dsss_frame_size |->
        IF id = 1 THEN (IF i % 2 = 0 THEN 1 ELSE -1)
        ELSE (IF ((i * i + 3 * i) \div 7) % 2 = 0 THEN 1 ELSE -1)]
DsssCarriers ==
    ({"pn"} \X {-501, -499, 499, 500, 501, 1500})
    \cup ({"flat"} \X {-499, 0, 499, -32600, 32600})
DsssBits == {<< 0 >>, << 1 >>, << 1, 0 >>}
DsssCarrier(shape, k, frames, spread_seq) ==
    [i \in 1..(HEADER_OFFSET + frames * dsss_frame_size) |->
        IF i <= HEADER_OFFSET THEN (i % 7) - 3
        ELSE IF shape = "pn"
             THEN k * spread_seq[((i - 1 - HEADER_OFFSET) % dsss_frame_size) + 1]
             ELSE k]

\* Echo probes: loud carriers of one chunk and of one chunk and a half after
\* HEADER_OFFSET, whose samples plus half the sample 50 or 200 places
\* earlier pass both int16 limits, under the default Echo settings.
EchoProbeLens == { HEADER_OFFSET + 2048, HEADER_OFFSET + 3072 }
EchoCarrier(n) ==
    [i \in 1..n |-> << 32000, -32000, 20000, -20001 >>[(i % 4) + 1]]
EchoProbeBits == { << 0 >>, << 1 >>, << 1, 0 >> }

\* Floats, in tenths, that the inverse FFT of a Phase segment can put in an
\* element of output: inside, at and beyond both int16 limits.
PhaseFloats == { -1000000, -327685, -327680, -327679, -5, 0, 15,
                 327669, 327670, 327675, 1000000 }

\* Echo decoder probes with short chunks: arrays of 0..7 samples decoded
\* from index 1 in chunks of 2 or 3, with every combination of val0 above,
\* equal to and below val1 in up to three chunks.
CepstrumLens == 0..7
CepstrumChunkSizes == {2, 3}
CepstrumPairs == { << 1, 0 >>, << 1, 1 >>, << 0, 1 >> }

\* Phase layout probes: carriers that end one sample before and exactly at
\* the end of the first and second segment, and inside the third; payloads
\* of 0, 1, 7, 8, 9, 16 and 17 bits.
PhaseLayoutLens ==
    { HEADER_OFFSET + phase_segment_size - 1, HEADER_OFFSET + phase_segment_size,
      HEADER_OFFSET + 2 * phase_segment_size - 1,
      HEADER_OFFSET + 2 * phase_segment_size,
      HEADER_OFFSET + 2 * phase_segment_size + 100 }
PhaseLayoutBits ==
    { [i \in 1..m |-> (i \div r) % 2] : m \in {0, 1, 7, 8, 9, 16, 17},
                                        r \in {1, 3} }

\* Decoder probes with short frames: every array of -1 and +1 of up to six
\* samples, decoded from index 1 with every +-1 sequence of two or three
\* chips standing for the PN sequence of that frame size.
CorrelateArrays == UNION { [1..m -> {-1, 1}] : m \in 0..6 }
CorrelateSeqs == [1..2 -> {-1, 1}] \cup [1..3 -> {-1, 1}]
CorrelateStarts == {1}

\* Bit arrays of one and two whole bytes, and the empty one.
BitArrays ==
    LET octets == [1..8 -> {0, 1}]
    IN  {<< >>} \cup octets
        \cup { a \o b : a \in octets,
                        b \in {<< 0, 1, 0, 0, 1, 1, 0, 1 >>,
                               << 1, 0, 0, 0, 0, 0, 0, 0 >>} }

PureInit ==
    /\ carrier_path = None
    /\ audio_data = None
    /\ payload_path = None
    /\ algo_var = LSB
    /\ echo_chunk_size = 2048
    /\ echo_delay_0 = 50
    /\ echo_delay_1 = 200
    /\ echo_alpha = 5
    /\ btn_bake = "disabled"
    /\ btn_play_stego = "normal"
    /\ last_encode = NoEncode
    /\ decode_audio_data = None
    /\ last_extract = NoExtract
    /\ prev_extract = NoExtract
    /\ events = 0
    /\ \/ \E audio \in Arrays(SampleVals), bits \in Arrays({0, 1}) :
            \E k \in 0..(Len(audio) + LsbPastEnd) :
               probe = [fn |-> "lsb", done |-> FALSE, audio |-> audio,
                        bits |-> bits, k |-> k]
       \/ \E algo_id \in ByteVals, p1, p2, p3 \in WordVals,
             hi, lo \in LimbVals, pattern \in {0, 1} :
               probe = [fn |-> "header", done |-> FALSE, algo_id |-> algo_id,
                        p1 |-> p1, p2 |-> p2, p3 |-> p3,
                        payload_len |-> [hi |-> hi, lo |-> lo],
                        audio |-> Carrier(bits_needed, pattern)]
       \/ \E base \in BaseHeaders, j \in 1..header_len, refix \in BOOLEAN,
             n \in {bits_needed, bits_needed + 1} :
            \E v \in OverwriteVals(base, j) :
               probe = [fn |-> "parse", done |-> FALSE,
                        hb |-> Overwrite(base, j, v, refix),
                        audio |-> Carrier(n, 0)]
       \/ \E n \in ExtractLens, algo_id \in ExtractAlgoIds,
             p \in ExtractParams, len \in ExtractPayloadLens,
             save_path \in BOOLEAN :
               probe = [fn |-> "extract", done |-> FALSE,
                        file |-> Crafted(n, algo_id, p[1], p[2], p[3], len),
                        save_path |-> save_path]
       \/ \E bits \in BitArrays :
               probe = [fn |-> "bits", done |-> FALSE, bits |-> bits]
       \/ \E algo \in AlgoValues, chunk \in EncChunkSizes :
            \E n \in CapLens(algo, chunk) \cup ShortLens :
            \E len \in {0, 1, Max(0, bytes_avail(n, algo, chunk))} :
               probe = [fn |-> "capacity", done |-> FALSE, n |-> n,
                        algo |-> algo, chunk |-> chunk, payload_len |-> len]
       \/ \E n \in EchoProbeLens, bits \in EchoProbeBits :
               probe = [fn |-> "echo", done |-> FALSE,
                        audio |-> EchoCarrier(n), bits |-> bits]
       \/ \E n \in CepstrumLens, chunk_size \in CepstrumChunkSizes,
             cepstrum \in [1..3 -> CepstrumPairs] :
               probe = [fn |-> "cepstrum", done |-> FALSE, n |-> n,
                        start_offset |-> 1, chunk_size |-> chunk_size,
                        cepstrum |-> cepstrum]
       \/ \E n \in PhaseLayoutLens, bits \in PhaseLayoutBits :
               probe = [fn |-> "phase_layout", done |-> FALSE, n |-> n,
                        bits |-> bits]
       \/ \E v10 \in PhaseFloats :
               probe = [fn |-> "phase_clip", done |-> FALSE, v10 |-> v10]
       \/ \E audio \in CorrelateArrays, spread_seq \in CorrelateSeqs,
             start_offset \in CorrelateStarts :
               probe = [fn |-> "correlate", done |-> FALSE, audio |-> audio,
                        spread_seq |-> spread_seq,
                        start_offset |-> start_offset]
       \/ \E id \in SpreadSeqIds, c \in DsssCarriers, bits \in DsssBits :
               probe = [fn |-> "dsss", done |-> FALSE, pn |-> id,
                        shape |-> c[1], k |-> c[2], bits |-> bits]

rest == << carrier_path, audio_data, payload_path, algo_var, echo_chunk_size,
           echo_delay_0, echo_delay_1, echo_alpha, btn_bake, btn_play_stego,
           last_encode, decode_audio_data, last_extract, prev_extract, events >>

\* algo_lsb_decode(algo_lsb_encode(audio, bits, k), k).
lsb_run ==
    /\ probe.fn = "lsb" /\ ~probe.done
    /\ LET enc == algo_lsb_encode(probe.audio, probe.bits, probe.k)
       IN  probe' = [fn |-> "lsb", done |-> TRUE, audio |-> probe.audio,
                     bits |-> probe.bits, k |-> probe.k, enc |-> enc,
                     raised |-> lsb_raises(probe.bits, Len(probe.audio),
                                           probe.k),
                     dec |-> algo_lsb_decode(enc, probe.k)]
    /\ UNCHANGED rest

\* read_smart_header of the samples that carry create_smart_header(...).
header_run ==
    /\ probe.fn = "header" /\ ~probe.done
    /\ LET hb == create_smart_header(probe.algo_id, probe.p1, probe.p2,
                                     probe.p3, probe.payload_len)
           stego == write_header_bits(probe.audio, unpackbits(hb))
       IN  probe' = [fn |-> "header", done |-> TRUE, algo_id |-> probe.algo_id,
                     p1 |-> probe.p1, p2 |-> probe.p2, p3 |-> probe.p3,
                     payload_len |-> probe.payload_len, audio |-> probe.audio,
                     hb |-> hb, stego |-> stego,
                     out |-> read_smart_header(stego)]
    /\ UNCHANGED rest

\* read_smart_header of samples whose LSBs spell the bytes hb.
parse_run ==
    /\ probe.fn = "parse" /\ ~probe.done
    /\ LET stego == write_header_bits(probe.audio, unpackbits(probe.hb))
       IN  probe' = [fn |-> "parse", done |-> TRUE, hb |-> probe.hb,
                     audio |-> probe.audio, stego |-> stego,
                     out |-> read_smart_header(stego)]
    /\ UNCHANGED rest

\* The capacity of n samples and the bits each encoder keeps of a payload
\* of payload_len bytes whose body starts at HEADER_OFFSET.
BitsKept(n, algo, chunk, num_bits) ==
    LET bits == [i \in 1..num_bits |-> 0]
    IN  CASE algo = LSB   -> Len(lsb_kept_bits(bits, n, HEADER_OFFSET))
          [] algo = ECHO  -> Len(echo_kept_bits(bits, n, HEADER_OFFSET, chunk))
          [] algo = DSSS  -> Len(dsss_kept_bits(bits, n, HEADER_OFFSET,
                                                dsss_frame_size))
          [] algo = PHASE -> Min(num_bits, bits_per_segment *
                                   phase_segments(num_bits, n, HEADER_OFFSET))

capacity_run ==
    /\ probe.fn = "capacity" /\ ~probe.done
    /\ probe' = [fn |-> "capacity", done |-> TRUE, n |-> probe.n,
                 algo |-> probe.algo, chunk |-> probe.chunk,
                 payload_len |-> probe.payload_len,
                 avail |-> bytes_avail(probe.n, probe.algo, probe.chunk),
                 cap |-> max_bytes(probe.n, probe.algo, probe.chunk),
                 kept |-> BitsKept(probe.n, probe.algo, probe.chunk,
                                   8 * probe.payload_len)]
    /\ UNCHANGED rest

\* np.unpackbits(np.packbits(bits)).
bits_run ==
    /\ probe.fn = "bits" /\ ~probe.done
    /\ LET packed == packbits(probe.bits)
       IN  probe' = [fn |-> "bits", done |-> TRUE, bits |-> probe.bits,
                     packed |-> packed, unpacked |-> unpackbits(packed)]
    /\ UNCHANGED rest

\* extract_file on a crafted file.
extract_run ==
    /\ probe.fn = "extract" /\ ~probe.done
    /\ probe' = [fn |-> "extract", done |-> TRUE, file |-> probe.file,
                 save_path |-> probe.save_path,
                 header |-> read_smart_header(probe.file.pcm),
                 out |-> extract_from(probe.file, probe.save_path)]
    /\ UNCHANGED rest

\* The DSSS decoder on the DSSS encoder's output, for one PN sequence.
dsss_run ==
    /\ probe.fn = "dsss" /\ ~probe.done
    /\ \E spread_seq \in {SpreadSeq(probe.pn)} :
       \E audio \in {DsssCarrier(probe.shape, probe.k, Len(probe.bits), spread_seq)} :
       \E enc \in {dsss_encode_samples(audio, probe.bits, HEADER_OFFSET, spread_seq)} :
          probe' = [fn |-> "dsss", done |-> TRUE, pn |-> probe.pn,
                    shape |-> probe.shape, k |-> probe.k, bits |-> probe.bits,
                    n |-> Len(audio),
                    peak |-> Max(3, IF probe.k < 0 THEN -probe.k ELSE probe.k),
                    first |-> enc[HEADER_OFFSET + 1] - audio[HEADER_OFFSET + 1],
                    last |-> enc[Len(audio)] - audio[Len(audio)],
                    a_first |-> audio[HEADER_OFFSET + 1],
                    a_last |-> audio[Len(audio)],
                    in_range |-> \A i \in 1..Len(enc) :
                                    enc[i] >= INT16_MIN /\ enc[i] <= INT16_MAX,
                    dec |-> dsss_decode_bits(enc, HEADER_OFFSET, spread_seq)]
    /\ UNCHANGED rest

\* algo_spread_spectrum_decode of a short array with short frames: the
\* number of bits the loop appends and the bits themselves.
correlate_run ==
    /\ probe.fn = "correlate" /\ ~probe.done
    /\ probe' = [fn |-> "correlate", done |-> TRUE, audio |-> probe.audio,
                 spread_seq |-> probe.spread_seq,
                 start_offset |-> probe.start_offset,
                 n |-> algo_spread_spectrum_decode(
                           Buf(probe.audio), probe.start_offset,
                           Len(probe.spread_seq)).n,
                 dec |-> dsss_decode_bits(probe.audio, probe.start_offset,
                                          probe.spread_seq)]
    /\ UNCHANGED rest

\* algo_echo_encode under the default settings.
echo_run ==
    /\ probe.fn = "echo" /\ ~probe.done
    /\ \E enc \in {algo_echo_encode(probe.audio, probe.bits, HEADER_OFFSET)} :
          probe' = [fn |-> "echo", done |-> TRUE, audio |-> probe.audio,
                    bits |-> probe.bits, enc |-> enc.pcm]
    /\ UNCHANGED rest

\* algo_echo_decode of a short array with short chunks: the bits of the
\* loop, and the number of bits the decoder returns for delays below the
\* chunk size.
cepstrum_run ==
    /\ probe.fn = "cepstrum" /\ ~probe.done
    /\ probe' = [fn |-> "cepstrum", done |-> TRUE, n |-> probe.n,
                 start_offset |-> probe.start_offset,
                 chunk_size |-> probe.chunk_size,
                 cepstrum |-> probe.cepstrum,
                 count |-> algo_echo_decode(Buf([i \in 1..probe.n |-> 0]),
                                            probe.start_offset,
                                            probe.chunk_size, 1, 1).n,
                 dec |-> echo_decode_bits(probe.n, probe.start_offset,
                                          probe.chunk_size, probe.cepstrum)]
    /\ UNCHANGED rest

\* The bits algo_phase_encode places in a carrier of n samples and the
\* bins algo_phase_decode reads from a buffer of n samples under the header
\* parameters process_steganography writes for Phase Coding.
phase_layout_run ==
    /\ probe.fn = "phase_layout" /\ ~probe.done
    /\ LET p == header_params(PHASE)
           audio == [i \in 1..probe.n |-> 0]
       IN  probe' = [fn |-> "phase_layout", done |-> TRUE, n |-> probe.n,
                     bits |-> probe.bits,
                     placed |-> phase_encode_loop(probe.bits, probe.n, 0,
                                                  HEADER_OFFSET),
                     read |-> phase_decode_loop(probe.n, HEADER_OFFSET,
                                                p[1], p[2]),
                     segments |-> Len(algo_phase_encode(audio, probe.bits,
                                                        HEADER_OFFSET).fp),
                     count |-> algo_phase_decode(Buf(audio), HEADER_OFFSET,
                                                 p[1], p[2]).n]
    /\ UNCHANGED rest

\* The last statement of algo_phase_encode on one element of output.
phase_clip_run ==
    /\ probe.fn = "phase_clip" /\ ~probe.done
    /\ probe' = [fn |-> "phase_clip", done |-> TRUE, v10 |-> probe.v10,
                 out |-> clip_int16(probe.v10)]
    /\ UNCHANGED rest

PureNext ==
    \/ dsss_run \/ correlate_run \/ echo_run \/ phase_clip_run
    \/ cepstrum_run \/ phase_layout_run
    \/ lsb_run \/ header_run \/ parse_run \/ capacity_run \/ bits_run
    \/ extract_run

PureSpec == PureInit /\ [][PureNext]_vars

\* ------------------------------------------------------------- properties

\* C1: LSB codec round-trip.  For samples, a start index k and bits with
\* len(bits) <= len(samples) - k, the first len(bits) entries of
\* algo_lsb_decode(algo_lsb_encode(samples, bits, k), k) are bits.
C1_LsbRoundTrip ==
    (probe.fn = "lsb" /\ probe.done
       /\ Len(probe.bits) <= Len(probe.audio) - probe.k)
    => /\ probe.dec.raise = "" /\ ~probe.dec.hang /\ probe.dec.term = NoTerm
       /\ Slice(probe.dec.bits, 0, Len(probe.bits)) = probe.bits

\* A round trip at k = 1 that fills the array to its end, over an odd
\* negative sample, and changes the array.
C1_Witness ==
    /\ probe.fn = "lsb" /\ probe.done
    /\ probe.k = 1 /\ Len(probe.audio) = 3 /\ Len(probe.bits) = 2
    /\ probe.audio[2] = -1 /\ probe.bits = << 0, 1 >>
    /\ probe.enc.pcm # probe.audio
    /\ Slice(probe.dec.bits, 0, 2) = probe.bits

\* C2: header round-trip.  read_smart_header of samples whose LSBs [0,120)
\* carry create_smart_header(algo_id, p1, p2, p3, payload_len) returns
\* exactly (algo_id, p1, p2, p3, payload_len).
C2_HeaderRoundTrip ==
    (probe.fn = "header" /\ probe.done)
    => probe.out = Some([algo_id |-> probe.algo_id, p1 |-> probe.p1,
                         p2 |-> probe.p2, p3 |-> probe.p3,
                         payload_len |-> probe.payload_len])

\* The round trip of the largest value of every field (payload_len 2^32-1).
C2_Witness ==
    /\ probe.fn = "header" /\ probe.done
    /\ probe.algo_id = 255 /\ probe.p1 = 65535 /\ probe.p2 = 65535
    /\ probe.p3 = 65535 /\ probe.payload_len = [hi |-> 65535, lo |-> 65535]
    /\ probe.out # None
    /\ Val(probe.out).payload_len = probe.payload_len

\* C3: header validation.  On a buffer of at least 120 samples
\* read_smart_header returns the fields of the 15 bytes if and only if bytes
\* 0-1 are 's','t' and the sum of bytes 0-12 mod 2^16 is the little-endian
\* value of bytes 13-14; otherwise it returns None.
C3_HeaderValidation ==
    (probe.fn = "parse" /\ probe.done)
    => LET hb == probe.hb
           valid == /\ hb[1] = 115 /\ hb[2] = 116
                    /\ (hb[1] + hb[2] + hb[3] + hb[4] + hb[5] + hb[6] + hb[7]
                        + hb[8] + hb[9] + hb[10] + hb[11] + hb[12] + hb[13])
                         % 65536 = hb[14] + 256 * hb[15]
       IN  /\ Len(probe.stego) >= bits_needed
           /\ valid => probe.out =
                         Some([algo_id |-> hb[3],
                               p1 |-> hb[4] + 256 * hb[5],
                               p2 |-> hb[6] + 256 * hb[7],
                               p3 |-> hb[8] + 256 * hb[9],
                               payload_len |-> [hi |-> hb[12] + 256 * hb[13],
                                                lo |-> hb[10] + 256 * hb[11]]])
           /\ ~valid => probe.out = None

\* Bytes with the right magic whose checksum alone is wrong: None.
C3_Witness ==
    /\ probe.fn = "parse" /\ probe.done
    /\ probe.hb[1] = 115 /\ probe.hb[2] = 116
    /\ probe.hb[14] + 256 * probe.hb[15]
         # SumSeq(Slice(probe.hb, 0, 13)) % 65536
    /\ probe.out = None

\* C7: capacity/layout invariant.  A payload the capacity calculator admits
\* (payload bytes <= bytes_avail) is kept whole by the encoder of the
\* selected algorithm: no body bit is truncated.
C7_CapacityLayout ==
    (probe.fn = "capacity" /\ probe.done /\ probe.payload_len <= probe.avail)
    => probe.kept = 8 * probe.payload_len

\* C6: capacity rejection.  When the payload is longer than the capacity of
\* the selected algorithm for the carrier, process_steganography returns no
\* stego buffer.
C6_CapacityRejection ==
    (last_encode # NoEncode
       /\ Len(Val(last_encode.payload)) >
            Max(0, bytes_avail(Len(Val(last_encode.carrier)), last_encode.algo,
                               last_encode.chunk)))
    => last_encode.res.kind # "audio"

\* C8: header region frame.  The buffer process_steganography returns has
\* the carrier's length; on samples [0,1000) it differs from the carrier at
\* most in bit 0 of samples [0,120), and no float-computed region of a body
\* codec reaches below HEADER_OFFSET.
C8_HeaderRegionFrame ==
    (last_encode.res.kind = "audio")
    => /\ Len(last_encode.res.audio.pcm) = Len(Val(last_encode.carrier))
       /\ \A i \in 1..HEADER_OFFSET :
            IF i <= bits_needed
            THEN last_encode.res.audio.pcm[i] - (last_encode.res.audio.pcm[i] % 2)
                   = Val(last_encode.carrier)[i] - (Val(last_encode.carrier)[i] % 2)
            ELSE last_encode.res.audio.pcm[i] = Val(last_encode.carrier)[i]
       /\ ~FpMeets(last_encode.res.audio, 0, HEADER_OFFSET)

\* An Echo encode that changed a header LSB and changed the body.
C8_Witness ==
    /\ last_encode.res.kind = "audio"
    /\ last_encode.algo = ECHO
    /\ \E i \in 1..bits_needed :
         last_encode.res.audio.pcm[i] # Val(last_encode.carrier)[i]
    /\ \E i \in (HEADER_OFFSET + 1)..Len(Val(last_encode.carrier)) :
         last_encode.res.audio.pcm[i] # Val(last_encode.carrier)[i]

\* C9: self-describing output.  read_smart_header of the buffer returned by
\* process_steganography gives algo_id 1/2/3/4 for LSB/Echo/Phase/DSSS,
\* (0,0,0) for LSB, the Echo encoder's (chunk_size, delay_0, delay_1),
\* (256,20,0) for Phase, (8192,0,0) for DSSS, and the payload's byte length.
C9_SelfDescribing ==
    (last_encode.res.kind = "audio")
    => /\ ~FpMeets(last_encode.res.audio, 0, bits_needed)
       /\ read_smart_header(last_encode.res.audio.pcm) =
            Some([algo_id |-> CASE last_encode.algo = LSB -> 1
                                [] last_encode.algo = ECHO -> 2
                                [] last_encode.algo = PHASE -> 3
                                [] last_encode.algo = DSSS -> 4,
                  p1 |-> CASE last_encode.algo = LSB -> 0
                           [] last_encode.algo = ECHO -> last_encode.chunk
                           [] last_encode.algo = PHASE -> 256
                           [] last_encode.algo = DSSS -> 8192,
                  p2 |-> CASE last_encode.algo = LSB -> 0
                           [] last_encode.algo = ECHO -> last_encode.d0
                           [] last_encode.algo = PHASE -> 20
                           [] last_encode.algo = DSSS -> 0,
                  p3 |-> IF last_encode.algo = ECHO THEN last_encode.d1 ELSE 0,
                  payload_len |->
                      [hi |-> 0, lo |-> Len(Val(last_encode.payload))]])

\* An Echo encode with parameters away from the defaults whose header
\* parses.
C9_Witness ==
    /\ last_encode.res.kind = "audio"
    /\ last_encode.algo = ECHO
    /\ last_encode.chunk = 256 /\ last_encode.d0 = 100 /\ last_encode.d1 = 200
    /\ Len(Val(last_encode.payload)) > 1
    /\ read_smart_header(last_encode.res.audio.pcm) # None
    /\ Val(read_smart_header(last_encode.res.audio.pcm)).p2 = 100

\* C4: single-bit header corruption is detected.  extract_file run on the
\* stego buffer of the last save with bit 0 of exactly one of the samples
\* [0,120) flipped reports an invalid header and builds no payload.
C4_HeaderBitFlipDetected ==
    (last_extract.audio # None /\ last_encode.res.kind = "audio")
    => \A i \in 1..bits_needed :
         ( /\ Val(last_extract.audio).pcm[i] # last_encode.res.audio.pcm[i]
           /\ Val(last_extract.audio) = FlipBit(last_encode.res.audio, i - 1) )
         => last_extract.out = Failure("no_header")

\* A stego file with a payload, one bit of its checksum bytes flipped,
\* was extracted and refused.
C4_Witness ==
    /\ last_extract.audio # None
    /\ last_encode.res.kind = "audio"
    /\ Len(Val(last_encode.payload)) > 0
    /\ \E i \in 105..bits_needed :
         Val(last_extract.audio) = FlipBit(last_encode.res.audio, i - 1)
    /\ last_extract.out.status = "no_header"

\* C5: end-to-end LSB round-trip.  For a carrier of N samples and a payload
\* of at most (N / 8) - 4 bytes, extract_file on the buffer the LSB encode
\* produced rebuilds exactly the payload bytes.
C5_LsbEndToEnd ==
    (/\ last_extract.audio # None
     /\ last_encode.res.kind = "audio"
     /\ last_encode.algo = LSB
     /\ Val(last_extract.audio) = last_encode.res.audio
     /\ Len(Val(last_encode.payload))
          <= (Len(Val(last_encode.carrier)) \div 8) - header_bytes)
    => /\ last_extract.out.status = "decoded"
       /\ last_extract.out.payload = Val(last_encode.payload)

\* C10: decode depends only on the stego samples.  Two consecutive runs of
\* extract_file on the same buffer build the same payload or fail the same
\* way, whatever happened to the rest of the application in between.
C10_DecodeOnlyReadsSamples ==
    (prev_extract.audio # None /\ prev_extract.audio = last_extract.audio)
    => [prev_extract.out EXCEPT !.saved = FALSE]
         = [last_extract.out EXCEPT !.saved = FALSE]

\* Two runs on one buffer under different settings of the encode tab, both
\* getting as far as the body decoder.
C10_Witness ==
    /\ prev_extract.audio # None
    /\ prev_extract.audio = last_extract.audio
    /\ prev_extract.cfg # last_extract.cfg
    /\ prev_extract.cfg[2] # last_extract.cfg[2]
    /\ last_extract.out.status = "decoded"

\* C11 (header wire layout): create_smart_header returns exactly 15 bytes:
\* bytes 0-1 are 0x73 0x74, byte 2 is algo_id, bytes 3-4, 5-6 and 7-8 are
\* p1, p2 and p3 little-endian, bytes 9-12 are payload_len little-endian,
\* and bytes 13-14 are the sum of bytes 0..12 modulo 2^16, little-endian.
C11_HeaderWireLayout ==
    (probe.fn = "header" /\ probe.done) =>
        LET hb == probe.hb
            len == probe.payload_len
            sum == hb[1] + hb[2] + hb[3] + hb[4] + hb[5] + hb[6] + hb[7]
                 + hb[8] + hb[9] + hb[10] + hb[11] + hb[12] + hb[13]
        IN  /\ Len(hb) = 15
            /\ \A i \in 1..15 : hb[i] \in 0..255
            /\ hb[1] = 115 /\ hb[2] = 116
            /\ hb[3] = probe.algo_id
            /\ hb[4] = probe.p1 % 256 /\ hb[5] = probe.p1 \div 256
            /\ hb[6] = probe.p2 % 256 /\ hb[7] = probe.p2 \div 256
            /\ hb[8] = probe.p3 % 256 /\ hb[9] = probe.p3 \div 256
            /\ hb[10] = len.lo % 256 /\ hb[11] = len.lo \div 256
            /\ hb[12] = len.hi % 256 /\ hb[13] = len.hi \div 256
            /\ hb[14] = (sum % 65536) % 256
            /\ hb[15] = (sum % 65536) \div 256

\* A header whose every multi-byte field has distinct low and high bytes.
C11_Witness ==
    /\ probe.fn = "header" /\ probe.done
    /\ probe.p1 = 255 /\ probe.p2 = 256 /\ probe.p3 = 65535
    /\ probe.payload_len = [hi |-> 1, lo |-> 65535]
    /\ probe.hb[14] + 256 * probe.hb[15] > 255

\* C12 (capacity calculator): the capacity in bytes of a carrier of N
\* samples is max(0, N div 8 - 4) for LSB, max(0, (N div chunk) div 8 - 4)
\* for Echo, max(0, N div 256 - 4) for Phase and max(0, (N div 8192) div 8
\* - 4) for DSSS, and it is never negative.
C12_CapacityCalculator ==
    (probe.fn = "capacity" /\ probe.done) =>
        LET N == probe.n
            raw == CASE probe.algo = LSB   -> (N \div 8) - 4
                     [] probe.algo = ECHO  -> ((N \div probe.chunk) \div 8) - 4
                     [] probe.algo = PHASE -> (N \div 256) - 4
                     [] probe.algo = DSSS  -> ((N \div 8192) \div 8) - 4
        IN  /\ probe.cap = (IF raw > 0 THEN raw ELSE 0)
            /\ probe.cap >= 0

\* A carrier on which bytes_avail is negative and the capacity is 0.
C12_Witness ==
    /\ probe.fn = "capacity" /\ probe.done
    /\ probe.avail < 0 /\ probe.cap = 0

\* C20 (bit packing is MSB-first and invertible): the byte 0x4D unpacks to
\* 0,1,0,0,1,1,0,1; every bit array whose length is a multiple of 8 is
\* returned unchanged by unpack(pack(x)); and each packed byte carries its
\* eight bits most significant first.
C20_BitPacking ==
    (probe.fn = "bits" /\ probe.done) =>
        /\ probe.unpacked = probe.bits
        /\ Len(probe.packed) * 8 = Len(probe.bits)
        /\ \A j \in 1..Len(probe.packed) :
              probe.packed[j] =
                  128 * probe.bits[8*j - 7] + 64 * probe.bits[8*j - 6]
                + 32 * probe.bits[8*j - 5] + 16 * probe.bits[8*j - 4]
                + 8 * probe.bits[8*j - 3] + 4 * probe.bits[8*j - 2]
                + 2 * probe.bits[8*j - 1] + probe.bits[8*j]
        /\ (probe.packed = << 77 >>) =>
               probe.unpacked = << 0, 1, 0, 0, 1, 1, 0, 1 >>

\* The byte 0x4D packed from its bits and unpacked again.
C20_Witness ==
    /\ probe.fn = "bits" /\ probe.done
    /\ probe.packed = << 77 >>
    /\ probe.unpacked = << 0, 1, 0, 0, 1, 1, 0, 1 >>

\* C18 (unknown algorithm): when the header validates but its algo_id is
\* not 1, 2, 3 or 4, extract_file reports the unknown algorithm, calls no
\* body decoder and builds and writes no payload.
C18_UnknownAlgorithm ==
    (/\ probe.fn = "extract" /\ probe.done
     /\ probe.header # None
     /\ \A id \in 1..4 : Val(probe.header).algo_id # id) =>
        /\ probe.out.status = "unknown_algo"
        /\ probe.out.decoder = ""
        /\ probe.out.nbits = 0
        /\ probe.out.payload = << >>
        /\ ~probe.out.saved

\* A valid header with algorithm id 5 on a file that has body samples, with
\* a save path at hand.
C18_Witness ==
    /\ probe.fn = "extract" /\ probe.done
    /\ probe.header # None
    /\ Val(probe.header).algo_id = 5
    /\ Len(probe.file.pcm) > HEADER_OFFSET
    /\ probe.save_path
    /\ probe.out.status = "unknown_algo"

\* C15 (decode output length): when the header is valid and its algo_id is
\* 1, 2, 3 or 4, extract_file builds exactly payload_len bytes: fewer decoded
\* bits, zero bits included, are padded with zeros and the result is still
\* returned; surplus bits are discarded.
C15_DecodeOutputLength ==
    (/\ probe.fn = "extract" /\ probe.done
     /\ probe.header # None
     /\ \E id \in 1..4 : Val(probe.header).algo_id = id) =>
        /\ probe.out.status = "decoded"
        /\ probe.out.term = NoTerm =>
              Len(probe.out.payload) = Val(probe.header).payload_len.lo

\* C16 (empty payload boundary): for every algorithm and every carrier of
\* at least 1120 samples, process_steganography with a payload of length 0
\* returns a buffer whose samples from HEADER_OFFSET on are the carrier's,
\* and extract_file on that buffer finds a valid header and builds an empty
\* payload instead of reporting an error.
C16_EmptyPayload ==
    (/\ last_encode # NoEncode
     /\ Len(Val(last_encode.payload)) = 0
     /\ Len(Val(last_encode.carrier)) >= 1120) =>
        /\ last_encode.res.kind = "audio"
        /\ last_encode.res.audio.fp = << >>
        /\ Len(last_encode.res.audio.pcm) = Len(Val(last_encode.carrier))
        /\ \A i \in (HEADER_OFFSET + 1)..Len(Val(last_encode.carrier)) :
              last_encode.res.audio.pcm[i] = Val(last_encode.carrier)[i]
        /\ (last_extract # NoExtract
              /\ last_extract.audio = Some(last_encode.res.audio)) =>
                 /\ last_extract.out.status = "decoded"
                 /\ last_extract.out.payload = << >>
                 /\ last_extract.out.payload_len = U32(0)

\* C17 (short-audio boundary): on a buffer of exactly 120 samples
\* process_steganography reports that the audio is too short by returning
\* its failure value None, without a stego buffer, and extract_file reports
\* it before it parses a header: no header is read and no decoder is called.
C17_ShortAudio ==
    /\ (last_encode # NoEncode /\ Len(Val(last_encode.carrier)) = 120) =>
          /\ last_encode.res.kind = "None"
          /\ last_encode.res.audio = Buf(<< >>)
    /\ (last_extract # NoExtract /\ Len(Val(last_extract.audio).pcm) = 120) =>
          /\ last_extract.out.status = "no_header"
          /\ last_extract.out.decoder = ""

\* C19 (encode works on a copy): whatever the algorithm, the payload and the
\* outcome, the carrier buffer audio_data holds after a call of
\* process_steganography or of generate_preview the sample values it held
\* before the call.
C19_CarrierUnchanged ==
    /\ last_encode # NoEncode => audio_data = last_encode.carrier
    /\ probe.done => audio_data = probe.carrier

\* An LSB encode that rewrote header and body bits of its working array.
C19_Witness ==
    /\ last_encode.res.kind = "audio"
    /\ last_encode.algo = LSB
    /\ \E i \in 1..bits_needed :
         last_encode.res.audio.pcm[i] # Val(last_encode.carrier)[i]
    /\ \E i \in (HEADER_OFFSET + 1)..Len(Val(last_encode.carrier)) :
         last_encode.res.audio.pcm[i] # Val(last_encode.carrier)[i]
    /\ audio_data = last_encode.carrier

\* C13 (DSSS round trip): for any carrier in which every sample satisfies
\* |sample| < 10000 and any bits that fit in full frames after
\* HEADER_OFFSET, the DSSS decoder returns from the DSSS encoder's output
\* exactly the bits that were embedded.
C13_DsssRoundTrip ==
    (/\ probe.fn = "dsss" /\ probe.done
     /\ probe.peak < 10000
     /\ HEADER_OFFSET + Len(probe.bits) * dsss_frame_size <= probe.n) =>
        probe.dec = probe.bits

\* C13 as amended: the same for any carrier in which every sample
\* satisfies |sample| < 500, the embedding strength.
C13_DsssRoundTripBelowAlpha ==
    (/\ probe.fn = "dsss" /\ probe.done
     /\ probe.peak < 500
     /\ HEADER_OFFSET + Len(probe.bits) * dsss_frame_size <= probe.n) =>
        probe.dec = probe.bits

\* Two bits embedded in two frames of the carrier 499 * PN and decoded.
C13_Witness ==
    /\ probe.fn = "dsss" /\ probe.done
    /\ probe.shape = "pn" /\ probe.k = 499 /\ probe.bits = << 1, 0 >>
    /\ probe.first \in {-500, 500} /\ probe.last \in {-500, 500}
    /\ probe.dec = << 1, 0 >>

\* C21: LSB encode frame.  algo_lsb_encode(samples, bits, start_index) sets
\* bit 0 of samples[start_index + i] to bits[i] for every i in
\* [0, min(len(bits), len(samples) - start_index)) and changes nothing else:
\* bits 1-15 of those samples and every sample outside the range keep their
\* values, and every resulting sample lies in [-32768, 32767].
C21_LsbEncodeFrame ==
    (probe.fn = "lsb" /\ probe.done)
    => LET n == Min(Len(probe.bits), Len(probe.audio) - probe.k)
           out == probe.enc.pcm
       IN  /\ Len(out) = Len(probe.audio)
           /\ \A j \in 1..Len(out) :
                /\ out[j] >= INT16_MIN /\ out[j] <= INT16_MAX
                /\ IF j - 1 - probe.k >= 0 /\ j - 1 - probe.k < n
                   THEN /\ out[j] % 2 = probe.bits[j - probe.k]
                        /\ (out[j] - (out[j] % 2))
                             = (probe.audio[j] - (probe.audio[j] % 2))
                   ELSE out[j] = probe.audio[j]

\* Three bits offered at index 2 of three samples: only the last sample has
\* room, its bit 0 is cleared (32767 becomes 32766) and the first two
\* samples stay.
C21_Witness ==
    /\ probe.fn = "lsb" /\ probe.done /\ ~probe.raised
    /\ probe.k = 2 /\ probe.bits = << 0, 1, 1 >>
    /\ probe.audio = << -1, INT16_MIN, INT16_MAX >>
    /\ probe.enc.pcm = << -1, INT16_MIN, INT16_MAX - 1 >>

\* C25: DSSS decode shape and threshold.  algo_spread_spectrum_decode emits
\* one bit per whole frame that fits after start_offset, in order:
\* floor((N - start_offset) / frame_size) bits (none when the array ends
\* before the first frame does).  The bit of a frame is 1 exactly when the
\* sum of frame[k] * PN[k] is >= 0, so a zero correlation decodes as 1.  The
\* encoder adds +alpha * PN to the frame of a 1 and -alpha * PN to the frame
\* of a 0, with the PN sequence the decoder correlates with.
C25_DsssDecodeShape ==
    /\ (probe.fn = "correlate" /\ probe.done)
       => LET N == Len(probe.audio)
              frame_size == Len(probe.spread_seq)
              frames == Max(0, (N - probe.start_offset) \div frame_size)
              sum(f) == SumSeq([k \in 1..frame_size |->
                          probe.audio[probe.start_offset
                                        + (f - 1) * frame_size + k]
                            * probe.spread_seq[k]])
          IN  /\ Len(probe.dec) = frames /\ probe.n = frames
              /\ \A f \in 1..frames : (probe.dec[f] = 1) <=> (sum(f) >= 0)
              /\ \A f \in 1..frames : probe.dec[f] \in {0, 1}
    /\ (probe.fn = "dsss" /\ probe.done)
       => LET sign(b) == IF b = 1 THEN 1 ELSE -1
              nbits == Len(probe.bits)
          IN  /\ Len(probe.dec) = (probe.n - HEADER_OFFSET) \div dsss_frame_size
              /\ probe.a_first + probe.first
                   = Clip(probe.a_first + sign(probe.bits[1]) * dsss_alpha
                                            * SpreadSeq(probe.pn)[1],
                          INT16_MIN, INT16_MAX)
              /\ probe.a_last + probe.last
                   = Clip(probe.a_last + sign(probe.bits[nbits]) * dsss_alpha
                                           * SpreadSeq(probe.pn)[dsss_frame_size],
                          INT16_MIN, INT16_MAX)

\* Six samples from index 1 with frames of two: two whole frames and one
\* sample left over; the first frame correlates to zero and decodes as 1, the
\* second to -2 and decodes as 0.
C25_Witness ==
    /\ probe.fn = "correlate" /\ probe.done
    /\ probe.audio = << 1, 1, 1, -1, -1, 1 >>
    /\ probe.start_offset = 1
    /\ probe.spread_seq = << 1, 1 >>
    /\ probe.dec = << 1, 0 >>

\* C28: decode terminates on every input.  For any buffer with a valid
\* header, any algo_id, any p1, p2, p3 in 0..65535 (p1 = 0 included) and any
\* payload_len, the selected decoder advances its position in every
\* iteration and extract_file finishes: no decoder loops for ever.
C28_DecodeTerminates ==
    (probe.fn = "extract" /\ probe.done /\ probe.header # None)
    => probe.out.status # "hang"

\* C26: Echo parameter constraints.  Every Echo encode, for any values the
\* parameter controls can hold, uses and writes header parameters with
\* delay_0 # delay_1, delay_0 < chunk_size and delay_1 < chunk_size.
C26_EchoParameterConstraints ==
    (/\ last_encode # NoEncode
     /\ last_encode.algo = ECHO
     /\ last_encode.res.kind = "audio")
    => LET h == Val(read_smart_header(last_encode.res.audio.pcm))
       IN  /\ h.p1 = last_encode.chunk
           /\ h.p2 = last_encode.d0 /\ h.p3 = last_encode.d1
           /\ h.p2 # h.p3
           /\ h.p2 < h.p1 /\ h.p3 < h.p1

C23_EchoEncodePerChunk ==
    (/\ last_encode # NoEncode /\ decode_audio_data = None
     /\ last_encode.algo = ECHO
     /\ last_encode.res.kind = "audio")
    => \A carrier \in {Val(last_encode.carrier)} :
       \A out \in {last_encode.res.audio.pcm} :
       \A bits \in {unpackbits(Val(last_encode.payload))} :
       LET chunk_size == last_encode.chunk
           N == Len(carrier)
           nbits == Min(Len(bits), (N - HEADER_OFFSET) \div chunk_size)
           cast(v10) == IF v10 >= 0 THEN v10 \div 10 ELSE -((-v10) \div 10)
       IN  /\ Len(out) = N
           /\ \A i \in 0..(nbits - 1) : \A n \in 0..(chunk_size - 1) :
                LET d == IF bits[i + 1] = 0 THEN last_encode.d0
                         ELSE last_encode.d1
                    s == HEADER_OFFSET + i * chunk_size
                    sum10 == 10 * carrier[s + n + 1]
                               + last_encode.alpha * carrier[s + n + 1 - d]
                IN  out[s + n + 1] =
                       IF n < d THEN carrier[s + n + 1]
                       ELSE cast(Clip(sum10, 10 * INT16_MIN, 10 * INT16_MAX))
           /\ \A k \in (HEADER_OFFSET + nbits * chunk_size + 1)..N :
                out[k] = carrier[k]

\* Eight bits in eight chunks of 256 samples of a 9192-sample carrier, with a
\* sample raised by its echo, one saturated at 32767 and samples left after
\* the last chunk.
C23_Witness ==
    /\ last_encode # NoEncode
    /\ last_encode.algo = ECHO /\ last_encode.res.kind = "audio"
    /\ last_encode.chunk = 256 /\ Len(Val(last_encode.payload)) = 1
    /\ Len(Val(last_encode.carrier)) = HEADER_OFFSET + dsss_frame_size
    /\ LET carrier == Val(last_encode.carrier)
           out == last_encode.res.audio.pcm
       IN  /\ \E k \in (HEADER_OFFSET + 257)..(HEADER_OFFSET + 2048) :
                out[k] # carrier[k] /\ out[k] > INT16_MIN /\ out[k] < INT16_MAX
           /\ \E k \in (HEADER_OFFSET + 1)..(HEADER_OFFSET + 2048) :
                out[k] = INT16_MAX /\ carrier[k] < INT16_MAX

\* C27: output range.  Every sample returned by each of the four body
\* encoders lies in [-32768, 32767]; a sum that leaves the range is
\* saturated at the limit it crossed, not wrapped around.
C27_OutputRange ==
    /\ (probe.fn = "lsb" /\ probe.done)
       => \A j \in 1..Len(probe.enc.pcm) :
             probe.enc.pcm[j] >= INT16_MIN /\ probe.enc.pcm[j] <= INT16_MAX
    /\ (probe.fn = "echo" /\ probe.done)
       => \A audio \in {probe.audio} : \A enc \in {probe.enc} :
          \A j \in 1..Len(enc) :
             /\ enc[j] >= INT16_MIN /\ enc[j] <= INT16_MAX
             /\ (j > HEADER_OFFSET + echo_delay_1)
                => LET d == IF probe.bits[1] = 0 THEN echo_delay_0
                            ELSE echo_delay_1
                       sum10 == 10 * audio[j] + echo_alpha * audio[j - d]
                   IN  (j <= HEADER_OFFSET + echo_chunk_size)
                       => /\ sum10 > 10 * INT16_MAX => enc[j] = INT16_MAX
                          /\ sum10 < 10 * INT16_MIN => enc[j] = INT16_MIN
    /\ (probe.fn = "dsss" /\ probe.done)
       => LET chip == (IF probe.bits[Len(probe.bits)] = 1 THEN 1 ELSE -1)
                        * dsss_alpha * SpreadSeq(probe.pn)[dsss_frame_size]
              sum == probe.a_last + chip
              out == probe.a_last + probe.last
          IN  /\ probe.in_range
              /\ sum > INT16_MAX => out = INT16_MAX
              /\ sum < INT16_MIN => out = INT16_MIN
    /\ (probe.fn = "phase_clip" /\ probe.done)
       => /\ probe.out >= INT16_MIN /\ probe.out <= INT16_MAX
          /\ probe.v10 > 10 * INT16_MAX => probe.out = INT16_MAX
          /\ probe.v10 < 10 * INT16_MIN => probe.out = INT16_MIN
          /\ (probe.v10 >= 10 * INT16_MIN /\ probe.v10 <= 10 * INT16_MAX)
             => (10 * probe.out - probe.v10) \in -9..9

\* An Echo output in which a sample below the upper limit was raised to it
\* and a sample above the lower limit was lowered to it.
C27_Witness ==
       /\ probe.fn = "echo" /\ probe.done
       /\ \E j \in (HEADER_OFFSET + 1)..(HEADER_OFFSET + 2048) :
             probe.enc[j] = INT16_MAX /\ probe.audio[j] < INT16_MAX
       /\ \E j \in (HEADER_OFFSET + 1)..(HEADER_OFFSET + 2048) :
             probe.enc[j] = INT16_MIN /\ probe.audio[j] > INT16_MIN

\* C22: Echo decode shape and tie-break.  algo_echo_decode emits one bit per
\* full chunk after start_offset, in order, floor((N - start_offset) /
\* chunk_size) bits, and skips a short final chunk (an array that ends before
\* the first chunk does gives none).  The bit of a chunk is 0 when
\* cepstrum[delay_0] >= cepstrum[delay_1], equality included, and 1
\* otherwise.
C22_EchoDecodeShape ==
    (probe.fn = "cepstrum" /\ probe.done)
    => LET chunks == Max(0, (probe.n - probe.start_offset) \div probe.chunk_size)
       IN  /\ Len(probe.dec) = chunks /\ probe.count = chunks
           /\ \A c \in 1..chunks :
                LET val0 == probe.cepstrum[c][1]
                    val1 == probe.cepstrum[c][2]
                IN  /\ (val0 > val1 \/ val0 = val1) => probe.dec[c] = 0
                    /\ val0 < val1 => probe.dec[c] = 1

\* Seven samples from index 1 in chunks of 2: three chunks, none short; the
\* second chunk has equal cepstrum values and decodes as 0.
C22_Witness ==
    /\ probe.fn = "cepstrum" /\ probe.done
    /\ probe.n = 7 /\ probe.chunk_size = 2
    /\ probe.cepstrum = << << 0, 1 >>, << 1, 1 >>, << 1, 0 >> >>
    /\ probe.dec = << 1, 0, 0 >>

\* C24: Phase bit layout agreement.  Encode places bit i in segment
\* floor(i / 8), the samples [1000 + 256 * floor(i / 8), + 256), at bin
\* 20 + (i mod 8), as +pi/2 for a 1 and -pi/2 for a 0.  Decode, given the
\* header's (segment_size, start_bin), reads bit i from the same segment and
\* bin and yields 1 exactly when the phase is > 0 (an exact zero gives 0).
\* A final segment shorter than 256 samples is neither written nor read.
C24_PhaseBitLayout ==
    (probe.fn = "phase_layout" /\ probe.done)
    => LET whole == Max(0, (probe.n - HEADER_OFFSET) \div phase_segment_size)
           nbits == Min(Len(probe.bits), bits_per_segment * whole)
       IN  /\ Len(probe.placed) = nbits
           /\ Len(probe.read) = bits_per_segment * whole
           /\ probe.count = Len(probe.read)
           /\ probe.segments
                = (nbits + bits_per_segment - 1) \div bits_per_segment
           /\ \A i \in 0..(nbits - 1) :
                LET w == probe.placed[i + 1]
                    r == probe.read[i + 1]
                IN  /\ w.bit_idx = i
                    /\ w.pos = HEADER_OFFSET
                                 + phase_segment_size * (i \div bits_per_segment)
                    /\ w.freq_bin = phase_start_bin + (i % bits_per_segment)
                    /\ w.phase = (IF probe.bits[i + 1] = 1 THEN 1 ELSE -1)
                    /\ r.pos = w.pos /\ r.freq_bin = w.freq_bin
                    /\ phase_bit(w.phase) = probe.bits[i + 1]
           /\ \A k \in 1..Len(probe.read) :
                probe.read[k].pos + phase_segment_size <= probe.n
           /\ phase_bit(0) = 0

\* Seventeen bits offered to a carrier with two whole segments and 100
\* samples more: sixteen are placed, the ninth in the second segment at bin
\* 20, and the decoder reads sixteen bins.
C24_Witness ==
    /\ probe.fn = "phase_layout" /\ probe.done
    /\ Len(probe.bits) = 17
    /\ probe.n = HEADER_OFFSET + 2 * phase_segment_size + 100
    /\ Len(probe.placed) = 16 /\ Len(probe.read) = 16
    /\ probe.placed[9].pos = HEADER_OFFSET + phase_segment_size
    /\ probe.placed[9].freq_bin = phase_start_bin
    /\ probe.read[9] = [pos |-> HEADER_OFFSET + phase_segment_size,
                        freq_bin |-> phase_start_bin]

\* C30: preview consistency under concurrency.  With the preview threads of
\* load_carrier, load_payload and on_algo_change interleaving in any order
\* with later loads and selections, once every started thread has finished
\* processed_audio is either None or the preview computed from the current
\* audio_data under the currently selected algorithm; in particular it has
\* the length of audio_data whenever update_plots subtracts the two.
C30_PreviewConsistency ==
    (/\ probe.fn = "preview"
     /\ \A t \in 1..Len(probe.threads) : probe.threads[t].pc = "done")
    => /\ \/ probe.processed_audio = None
          \/ \E bits \in PreviewBits :
                \E run \in {generate_preview(bits)} :
                   /\ run.kind = "audio"
                   /\ run.audio = Val(probe.processed_audio)
       /\ probe.plots # "ValueError"

====
